---- MODULE Spec2Model ----
(***************************************************************************)
(* The contact-sheet viewer: the ContactSheet controller (state machine,   *)
(* gesture handlers, resize), SheetAnimation (camera tweens), GridLayout   *)
(* (geometry), the DetailView overlay and the bootstrap in main.js.        *)
(*                                                                         *)
(* Units.  A frustum extent is an integer number of 1/FrUnit scene units.  *)
(* A camera position is an integer number of half sheet pixels, that is    *)
(* scene units divided by (layout.scale / 2), so that every cell centre    *)
(* returned by getImagePosition is an integer.  Time advances in quanta of *)
(* TickMs milliseconds; a duration of d ms lasts Ticks(d) quanta.          *)
(***************************************************************************)
EXTENDS Integers, Sequences, FiniteSets, TLC

\* ------------------------------------------------------------------ bounds
MaxTouches == 2
MaxPanMoves == 2
MaxPanSessions == 1
MaxResizes == 1
MaxUnloads == 2
\* pan sessions and resizes of one behaviour, taken together
MaxPansAndResizes == 1

\* ------------------------------------------------- GridLayout (constants)
sheetWidth == 5685
sheetHeight == 6100
imageWidth == 600
imageHeight == 900
horizontalMargin == 315
verticalMargin == 40
firstImageX == 250
firstImageY == 250
rows == 6
columns == 6

\* ------------------------------------------------------ gesture constants
SWIPE_VELOCITY_THRESHOLD_X10 == 3
SWIPE_DISTANCE_THRESHOLD == 50
DRAG_THRESHOLD == 5
PinchOutRatioX10 == 13
PinchInRatioX10 == 7

\* --------------------------------------------------- durations (in ms)
TickMs == 500
SnapBackMs == 100
CooldownMs == 150
BrightnessDelayMs == 250
SubsequentMovementMs == 300
ZoomOutPositionMs == 570
ZoomOutFrustumMs == 850
ZoomOutDelayMs == 250
InitialZoomFrustumMs == 1000
InitialZoomPositionMs == 1500
SubsequentZoomFrustumMs == 300
SubsequentZoomPositionMs == 500
DetailTweenMs == 650
ResizeThrottleMs == 100

Ticks(ms) == (ms + TickMs - 1) \div TickMs

\* ------------------------------------------------------------ frustum units
FrUnit == 5060
OverviewFrustumSize == 4
ImagePixelHeight == 900
ZoomMultiplierSheetUtilsX10 == 7
ZoomMultiplierAnimationX10 == 5
DetailZoomFactorDesktopX100 == 110
DetailZoomFactorMobileX100 == 115
MobileBreakpoint == 768

SheetState == [IDLE |-> "idle", ZOOMED_IN |-> "zoomed_in", ANIMATING |-> "animating"]

Cells == [row : 0 .. rows - 1, col : 0 .. columns - 1]

Abs(x) == IF x < 0 THEN -x ELSE x
Max(a, b) == IF a > b THEN a ELSE b
Min(a, b) == IF a < b THEN a ELSE b

\* The viewport sizes the window takes (innerWidth, innerHeight).
Viewports == { [w |-> 1800, h |-> 900], [w |-> 900, h |-> 1800] }
InitialViewport == [w |-> 1800, h |-> 900]

\* ------------------------------------------------------------- GridLayout
\* getImagePosition: pixelX + imageWidth/2 - sheetWidth/2, times scale; in
\* half sheet pixels that is 2*pixelX + imageWidth - sheetWidth.  Y is flipped.
getImagePosition(row, col) ==
    LET pixelX == firstImageX + (col * (imageWidth + horizontalMargin))
        pixelY == firstImageY + (row * (imageHeight + verticalMargin))
    IN  [x |-> 2 * pixelX + imageWidth - sheetWidth,
         y |-> -(2 * pixelY + imageHeight - sheetHeight)]

\* ------------------------------------------------------------- frustums
Frustum(halfWidth, halfHeight) ==
    [left |-> -halfWidth, right |-> halfWidth, top |-> halfHeight, bottom |-> -halfHeight]

\* The overview frustum without the portrait case: size 4 whatever the aspect.
OverviewFrustumLandscapeOnly(vp) ==
    Frustum((OverviewFrustumSize * FrUnit * vp.w) \div (2 * vp.h),
            (OverviewFrustumSize * FrUnit) \div 2)

\* aspect > 1 ? 4 : 4 / aspect, then halfHeight = size / 2, halfWidth = size * aspect / 2
OverviewFrustum(vp) ==
    IF vp.w > vp.h
    THEN Frustum((OverviewFrustumSize * FrUnit * vp.w) \div (2 * vp.h),
                 (OverviewFrustumSize * FrUnit) \div 2)
    ELSE Frustum((OverviewFrustumSize * FrUnit) \div 2,
                 (OverviewFrustumSize * FrUnit * vp.h) \div (2 * vp.w))

\* calculateZoomFrustum: size = (innerHeight * multiplier / 900) * 2, aspect = w / h;
\* the caller halves size and multiplies the half by aspect.
ZoomFrustumFor(vp, multiplierX10) ==
    LET size == (vp.h * multiplierX10 * 2 * FrUnit) \div (ImagePixelHeight * 10)
        halfSize == size \div 2
    IN  Frustum((halfSize * vp.w) \div vp.h, halfSize)

\* SheetUtils.calculateZoomFrustum (used by ContactSheet.calculateZoomFrustum)
calculateZoomFrustum(vp) == ZoomFrustumFor(vp, ZoomMultiplierSheetUtilsX10)

\* SheetAnimation.calculateZoomFrustum (used by SheetAnimation.zoomToImage)
AnimationCalculateZoomFrustum(vp) == ZoomFrustumFor(vp, ZoomMultiplierAnimationX10)


\* ------------------------------------------------------------- hit testing
\* A pointer ray either misses the sheet mesh or meets it at a sheet pixel
\* (x = uv.x * sheetWidth, y = (1 - uv.y) * sheetHeight).
Miss == [hit |-> FALSE, x |-> 0, y |-> 0]
At(x, y) == [hit |-> TRUE, x |-> x, y |-> y]
CellCentrePixel(row, col) ==
    At(firstImageX + col * (imageWidth + horizontalMargin) + imageWidth \div 2,
       firstImageY + row * (imageHeight + verticalMargin) + imageHeight \div 2)

\* The pointer positions the gestures are tried at: the centres of three cells
\* (two opposite corners and the neighbour of one), a pixel near the left edge
\* of cell (0,2), which is in view when the camera is zoomed on cell (0,0), a
\* pixel in the margin between two cells, a pixel of the sheet's border and a
\* ray that misses the sheet.
PointerHits ==
    { CellCentrePixel(0, 0), CellCentrePixel(0, 1), CellCentrePixel(5, 5),
      At(2100, 700), At(950, 700), At(100, 100), Miss }

NoCell == [row |-> -1, col |-> -1]

\* isOverImage taking the grid cell from the image width alone, the margin
\* between the images left out of the stride.
isOverImageNoMargin(uv) ==
    IF ~uv.hit THEN FALSE
    ELSE
      LET gridX == (uv.x - firstImageX) \div imageWidth
          gridY == (uv.y - firstImageY) \div imageHeight
          imageX == firstImageX + (gridX * (imageWidth + horizontalMargin))
          imageY == firstImageY + (gridY * (imageHeight + verticalMargin))
      IN  IF gridX < 0 \/ gridX >= columns \/ gridY < 0 \/ gridY >= rows
          THEN FALSE
          ELSE /\ uv.x >= imageX
               /\ uv.x <= imageX + imageWidth
               /\ uv.y >= imageY
               /\ uv.y <= imageY + imageHeight

isOverImage(uv) ==
    IF ~uv.hit THEN FALSE
    ELSE
      LET gridX == (uv.x - firstImageX) \div (imageWidth + horizontalMargin)
          gridY == (uv.y - firstImageY) \div (imageHeight + verticalMargin)
          imageX == firstImageX + (gridX * (imageWidth + horizontalMargin))
          imageY == firstImageY + (gridY * (imageHeight + verticalMargin))
      IN  IF gridX < 0 \/ gridX >= columns \/ gridY < 0 \/ gridY >= rows
          THEN FALSE
          ELSE /\ uv.x >= imageX
               /\ uv.x <= imageX + imageWidth
               /\ uv.y >= imageY
               /\ uv.y <= imageY + imageHeight

getImageAtPointer(uv) ==
    IF ~uv.hit THEN NoCell
    ELSE IF ~isOverImage(uv) THEN NoCell
    ELSE [row |-> (uv.y - firstImageY) \div (imageHeight + verticalMargin),
          col |-> (uv.x - firstImageX) \div (imageWidth + horizontalMargin)]

\* ------------------------------------------------------------------ state
VARIABLES
    viewport,        \* window.innerWidth / innerHeight
    cam,             \* camera.left / right / top / bottom
    camPos,          \* camera.position.x / y
    originalFrustum, \* ContactSheet.originalFrustum
    state,           \* ContactSheet.state
    currentImage,    \* ContactSheet.currentImage
    drag,            \* isDragging, hasMovedBeyondThreshold, swipeDirection, start/last, velocity
    touch,           \* activeTouchCount, multiTouchActive
    pinch,           \* isPinching, initialPinchScale
    posTweens,       \* gsap tweens of camera.position, in creation order
    frTweens,        \* gsap tweens of the camera frustum, in creation order
    timers,          \* pending setTimeout callbacks
    bright,          \* last brightness target issued per cell mesh (tenths)
    meshes,          \* the cell meshes in the scene
    init,            \* progress of init(): phase, outcome of the loads; the sheet mesh
                     \* in the scene; the listeners the controller and its gesture
                     \* manager have registered
    dv,              \* DetailView: isVisible, pointer-events, originalSettings, its
                     \* registered listeners, its container attached to the document
    main,            \* main.js: resizeTimeout pending, error message shown, its
                     \* window listeners registered
    env              \* the input devices: touch points down, Hammer sessions, input
                     \* budgets, and gate, the history of the touch reports: "multi"
                     \* since a touch event reported two or more points, "released"
                     \* once one has reported none (or a fresh touchstart one), "clear"
                     \* once a pan-start has then begun a drag session

vars == << viewport, cam, camPos, originalFrustum, state, currentImage, drag, touch,
           pinch, posTweens, frTweens, timers, bright, meshes, init, dv, main, env >>

\* The drag session fields.  dx, dy: last - start; vx, vy over vdt: the velocity
\* (event.center - last) / deltaTime of the last pan-move, kept as a fraction.
\* n counts the pan-moves the session has handled.
NoDrag == [isDragging |-> FALSE, moved |-> FALSE, dir |-> "none",
           dx |-> 0, dy |-> 0, vx |-> 0, vy |-> 0, vdt |-> 1, n |-> 0]
NoPinch == [isPinching |-> FALSE, scale0 |-> 0]
NoFrustum == Frustum(0, 0)

\* The listeners setupGestureManager and setupResizeHandling register: the
\* Hammer handlers and the native touch-default suppressors of GestureManager,
\* the touch monitors, the Safari gesture handlers, the cursor handlers and
\* the controller's resize listener.
ControllerListeners ==
    { "hammer", "preventDefaultTouch", "touchMonitors", "gestureChange", "cursor", "resize" }

\* The listeners the controller reaches through a single field
\* (this.gestureManager, this.touchStartHandler ..., this.gestureChangeHandler),
\* which a later setupGestureManager overwrites; the cursor and resize
\* listeners are pushed on the eventListeners array instead.
FieldHeldListeners == { "hammer", "preventDefaultTouch", "touchMonitors", "gestureChange" }

\* A listener registered by an earlier init() whose field has been overwritten.
FirstInit(l) ==
    CASE l = "hammer" -> "hammer (first init)"
      [] l = "preventDefaultTouch" -> "preventDefaultTouch (first init)"
      [] l = "touchMonitors" -> "touchMonitors (first init)"
      [] l = "gestureChange" -> "gestureChange (first init)"
      [] OTHER -> l

\* The listeners the DetailView constructor registers, and those show() adds.
DetailViewListeners == { "closeButtonClick", "hammer", "containerTouch" }
DetailViewShownListeners == { "keydown", "resize" }

\* What the image loader is asked for and what it answers: the sheet id the
\* controller is built with, whether the sheet texture loads, which cell loads
\* fail (all of them, or a single one).
SheetIds == {"sheet_one"}
FailChoices == { Cells, {[row |-> 0, col |-> 1]} }
SheetImageFiles(sheetId) == IF sheetId = "sheet_one" THEN 36 ELSE 0

\* Row-major filling of createImagesFromSheet: the cell of the i-th file (0-based).
CellOfIndex(i) == [row |-> i \div columns, col |-> i % columns]

Init ==
    /\ viewport = InitialViewport
    /\ cam = OverviewFrustum(InitialViewport)
    /\ camPos = [x |-> 0, y |-> 0]
    /\ originalFrustum = OverviewFrustum(InitialViewport)
    /\ state = SheetState.IDLE
    /\ currentImage = [row |-> 0, col |-> 0]
    /\ drag = NoDrag
    /\ touch = [count |-> 0, multi |-> FALSE]
    /\ pinch = NoPinch
    /\ posTweens = << >>
    /\ frTweens = << >>
    /\ timers = << >>
    /\ bright = [c \in Cells |-> 0]
    /\ meshes = [c \in Cells |-> "none"]
    /\ \E sid \in SheetIds, fails \in FailChoices, sheetOk \in BOOLEAN :
          init = [phase |-> "setupSheet", sheetId |-> sid, fails |-> fails,
                  sheetOk |-> sheetOk, files |-> 0, settled |-> 0,
                  successCount |-> 0, errorCount |-> 0, wired |-> FALSE,
                  sheet |-> FALSE, listeners |-> {}]
    /\ dv = [isVisible |-> FALSE, pointerEvents |-> FALSE, originalSettings |-> NoFrustum,
             listeners |-> DetailViewListeners, attached |-> TRUE]
    /\ main = [resizeTimeout |-> FALSE, errorShown |-> FALSE, listening |-> TRUE]
    /\ env = [fingers |-> 0, pan |-> FALSE, pinch |-> FALSE, pans |-> 0, resizes |-> 0,
             gate |-> "clear", unloads |-> 0]


\* ------------------------------------------------------------- brightness
\* setImageBrightness comparing the row only: the whole row of the active
\* cell stays at full brightness.
setImageBrightnessWholeRow(b, activeRow, activeCol) ==
    [c \in Cells |->
        IF meshes[c] = "none" THEN b[c]
        ELSE IF c.row = activeRow THEN 10 ELSE 1]

\* SheetAnimation.setImageBrightness: every cell mesh gets a colour tween, to
\* 1.0 for the active cell and to 0.1 for the others (tenths: 10 and 1).
setImageBrightness(b, activeRow, activeCol) ==
    [c \in Cells |->
        IF meshes[c] = "none" THEN b[c]
        ELSE IF c.row = activeRow /\ c.col = activeCol THEN 10 ELSE 1]

\* SheetAnimation.resetImageBrightness: every cell mesh back to 1.0.
resetImageBrightness(b, ms) ==
    [c \in Cells |-> IF ms[c] = "none" THEN b[c] ELSE 10]

\* ----------------------------------------------------------------- resize
\* SheetUtils.handleResize: the camera frustum and originalFrustum it leaves,
\* for the viewport at the time of the call and the state passed in.
handleResize(vp, st) ==
    IF st # SheetState.ZOOMED_IN
    THEN [cam |-> OverviewFrustum(vp), originalFrustum |-> OverviewFrustum(vp)]
    ELSE [cam |-> calculateZoomFrustum(vp), originalFrustum |-> OverviewFrustum(vp)]

\* ------------------------------------------------------------------ tweens
Lerp(a, b, el, dur) == a + ((b - a) * el) \div dur
FrLerp(f, t, el, dur) ==
    [left |-> Lerp(f.left, t.left, el, dur), right |-> Lerp(f.right, t.right, el, dur),
     top |-> Lerp(f.top, t.top, el, dur), bottom |-> Lerp(f.bottom, t.bottom, el, dur)]

\* gsap.to(camera.position, {x, y, duration, onComplete}); kind names the callback.
PosTween(kind, from, to, ms, cell) ==
    [kind |-> kind, fx |-> from.x, fy |-> from.y, tx |-> to.x, ty |-> to.y,
     el |-> 0, dur |-> Ticks(ms), cell |-> cell]

\* gsap.to(camera, {left, right, top, bottom, duration, delay, onComplete}).
\* A delayed tween reads its start values when the delay has passed.
FrTween(kind, from, to, ms, delayMs) ==
    [kind |-> kind, from |-> from, to |-> to, el |-> 0, dur |-> Ticks(ms),
     delay |-> Ticks(delayMs)]

Timer(kind, ms, cell) == [kind |-> kind, rem |-> Ticks(ms), cell |-> cell]

\* One gsap tick over the frustum tweens, in creation order: each live tween
\* writes the camera, so the last one created has the last word.
RECURSIVE RenderFrustum(_, _, _)
RenderFrustum(tws, c, acc) ==
    IF tws = << >> THEN [cam |-> c, tws |-> acc]
    ELSE LET t == Head(tws)
             t2 == IF t.delay > 1 THEN [t EXCEPT !.delay = @ - 1]
                   ELSE IF t.delay = 1 THEN [t EXCEPT !.delay = 0, !.from = c]
                   ELSE [t EXCEPT !.el = @ + 1]
             c2 == IF t2.delay > 0 THEN c ELSE FrLerp(t2.from, t2.to, t2.el, t2.dur)
         IN  RenderFrustum(Tail(tws), c2, Append(acc, t2))

Done(t) == t.el >= t.dur
Last(seq) == seq[Len(seq)]
DueTimers == { i \in 1 .. Len(timers) : timers[i].rem = 0 }
RemoveAt(seq, i) == SubSeq(seq, 1, i - 1) \o SubSeq(seq, i + 1, Len(seq))

\* ---------------------------------------------------------------- loading
\* setupSheet: the sheet texture load settles; a failure rejects init(), and
\* main.js shows the error message.
SetupSheetSettles ==
    /\ init.phase = "setupSheet"
    /\ IF init.sheetOk
       THEN /\ init' = [init EXCEPT !.phase = "loading", !.sheet = TRUE,
                                     !.files = SheetImageFiles(init.sheetId)]
            /\ main' = main
       ELSE /\ init' = [init EXCEPT !.phase = "rejected"]
            /\ main' = [main EXCEPT !.errorShown = TRUE]
    /\ UNCHANGED << viewport, cam, camPos, originalFrustum, state, currentImage, drag,
                    touch, pinch, posTweens, frTweens, timers, bright, meshes, dv, env >>

\* createImagesFromSheet whose catch branch counts the error and adds no mesh.
ImageLoadSettlesNoPlaceholder ==
    /\ init.phase = "loading"
    /\ init.settled < init.files
    /\ LET cell == CellOfIndex(init.settled)
       IN  IF cell \in init.fails
           THEN /\ meshes' = meshes
                /\ init' = [init EXCEPT !.settled = @ + 1, !.errorCount = @ + 1]
           ELSE /\ meshes' = [meshes EXCEPT ![cell] = "image"]
                /\ init' = [init EXCEPT !.settled = @ + 1, !.successCount = @ + 1]
    /\ UNCHANGED << viewport, cam, camPos, originalFrustum, state, currentImage, drag,
                    touch, pinch, posTweens, frTweens, timers, bright, dv, main, env >>

\* createImagesFromSheet: the load of one cell texture settles (taken in file
\* order): a mesh on success, a placeholder mesh on failure.
ImageLoadSettles ==
    /\ init.phase = "loading"
    /\ init.settled < init.files
    /\ LET cell == CellOfIndex(init.settled)
       IN  IF cell \in init.fails
           THEN /\ meshes' = [meshes EXCEPT ![cell] = "placeholder"]
                /\ init' = [init EXCEPT !.settled = @ + 1, !.errorCount = @ + 1]
           ELSE /\ meshes' = [meshes EXCEPT ![cell] = "image"]
                /\ init' = [init EXCEPT !.settled = @ + 1, !.successCount = @ + 1]
    /\ UNCHANGED << viewport, cam, camPos, originalFrustum, state, currentImage, drag,
                    touch, pinch, posTweens, frTweens, timers, bright, dv, main, env >>

\* createImagesFromSheet without its throw: init() goes on to wire the handlers
\* whatever the loads answered.
InitCompletesAlways ==
    /\ init.phase = "loading"
    /\ init.settled = init.files
    /\ init' = [init EXCEPT !.phase = "ready", !.wired = TRUE,
                              !.listeners = ControllerListeners]
    /\ main' = main
    /\ bright' = resetImageBrightness(bright, meshes)
    /\ UNCHANGED << viewport, cam, camPos, originalFrustum, state, currentImage, drag,
                    touch, pinch, posTweens, frTweens, timers, meshes, dv, env >>

\* createImagesFromSheet after Promise.all, then the rest of init(): reject when
\* no load succeeded and one failed; otherwise reset the brightness and wire the
\* gesture manager, the touch monitors and the resize listener.
InitCompletes ==
    /\ init.phase = "loading"
    /\ init.settled = init.files
    /\ IF init.successCount = 0 /\ init.errorCount > 0
       THEN /\ init' = [init EXCEPT !.phase = "rejected"]
            /\ main' = [main EXCEPT !.errorShown = TRUE]
            /\ bright' = bright
       ELSE /\ init' = [init EXCEPT !.phase = "ready", !.wired = TRUE,
                                     !.listeners = ControllerListeners]
            /\ main' = main
            /\ bright' = resetImageBrightness(bright, meshes)
    /\ UNCHANGED << viewport, cam, camPos, originalFrustum, state, currentImage, drag,
                    touch, pinch, posTweens, frTweens, timers, meshes, dv, env >>

\* window 'resize': main.js arms its 100 ms throttle timer unless one is pending;
\* the controller's own listener, once wired, calls handleResize at once.
Resize(vp) ==
    /\ vp # viewport
    /\ env.resizes < MaxResizes
    /\ env.pans + env.resizes < MaxPansAndResizes
    /\ env' = [env EXCEPT !.resizes = @ + 1]
    /\ viewport' = vp
    /\ IF main.resizeTimeout \/ ~main.listening
       THEN /\ main' = main /\ timers' = timers
       ELSE /\ main' = [main EXCEPT !.resizeTimeout = TRUE]
            /\ timers' = Append(timers, Timer("resize", ResizeThrottleMs, NoCell))
    /\ IF init.wired
       THEN /\ cam' = handleResize(vp, state).cam
            /\ originalFrustum' = handleResize(vp, state).originalFrustum
       ELSE /\ cam' = cam /\ originalFrustum' = originalFrustum
    /\ UNCHANGED << camPos, state, currentImage, drag, touch, pinch, posTweens,
                    frTweens, bright, meshes, init, dv >>


\* ------------------------------------------------------------------- time
\* The completion callbacks of the position tweens that end in this gsap tick.
IsZoomInDone(t) == t.kind = "zoomIn" /\ Done(t)
IsMoveDone(t) == t.kind = "move" /\ Done(t)
IsCommitDone(t) == IsZoomInDone(t) \/ IsMoveDone(t)
IsZoomOutDone(t) == t.kind = "zoomOut" /\ Done(t)
IsDetailHideDone(t) == t.kind = "detailHide" /\ Done(t)
NotDone(t) == ~Done(t)
\* The 150 ms cooldown timeouts the callbacks of the tweens in done schedule.
Cooldowns(done, kind) == [i \in 1 .. Len(done) |-> Timer(kind, CooldownMs, NoCell)]
Advance(tws) == [i \in 1 .. Len(tws) |-> [tws[i] EXCEPT !.el = @ + 1]]
CountDown(ts) == [i \in 1 .. Len(ts) |-> [ts[i] EXCEPT !.rem = @ - 1]]

\* One quantum of time passes: gsap renders every tween and runs the onComplete
\* of those that end, in creation order; pending timeouts come one quantum closer.
\*   zoomToImage's position tween: onZoomComplete (currentImage, state = ZOOMED_IN),
\*     then setImageBrightness;
\*   moveToImage's tween: currentImage = targetImage, then a 150 ms timeout;
\*   zoomOut's frustum tween: originalFrustum = the extents captured when the
\*     zoom-out began, then onZoomOutComplete (a 150 ms timeout);
\*   DetailView.hide's timeline: pointer-events none (with the overlay hidden
\*     originalSettings is not read again before the next show() rewrites it,
\*     and is cleared here).
Tick ==
    /\ posTweens # << >> \/ frTweens # << >> \/ timers # << >>
    /\ DueTimers = {}
    /\ LET pos == Advance(posTweens)
           fr == RenderFrustum(frTweens, cam, << >>)
           commits == SelectSeq(pos, IsCommitDone)
           zoomIns == SelectSeq(pos, IsZoomInDone)
           zoomOuts == SelectSeq(fr.tws, IsZoomOutDone)
       IN  /\ camPos' = IF pos = << >> THEN camPos
                        ELSE [x |-> Lerp(Last(pos).fx, Last(pos).tx, Last(pos).el, Last(pos).dur),
                              y |-> Lerp(Last(pos).fy, Last(pos).ty, Last(pos).el, Last(pos).dur)]
           /\ cam' = fr.cam
           /\ posTweens' = SelectSeq(pos, NotDone)
           /\ frTweens' = SelectSeq(fr.tws, NotDone)
           /\ currentImage' = IF commits = << >> THEN currentImage ELSE Last(commits).cell
           /\ state' = IF zoomIns = << >> THEN state ELSE SheetState.ZOOMED_IN
           /\ bright' = IF zoomIns = << >> THEN bright
                        ELSE setImageBrightness(bright, Last(zoomIns).cell.row, Last(zoomIns).cell.col)
           /\ originalFrustum' = IF zoomOuts = << >> THEN originalFrustum ELSE Last(zoomOuts).to
           /\ timers' = CountDown(timers)
                          \o Cooldowns(SelectSeq(pos, IsMoveDone), "toZoomed")
                          \o Cooldowns(zoomOuts, "toIdle")
           /\ dv' = IF SelectSeq(fr.tws, IsDetailHideDone) = << >> THEN dv
                    ELSE [dv EXCEPT !.pointerEvents = FALSE,
                                    !.originalSettings = IF dv.isVisible THEN @ ELSE NoFrustum]
    /\ UNCHANGED << viewport, drag, touch, pinch, meshes, init, main, env >>

\* A due setTimeout callback runs.
\*   toZoomed: moveToImage's cooldown, state = ZOOMED_IN;
\*   toIdle: zoomOut's cooldown, state = IDLE;
\*   brightness: handleInitialZoom's 250 ms timeout, dims the other cells if the
\*     state is still ANIMATING;
\*   resize: main.js throttledResize, contactSheet.handleResize().
TimerFire(i) ==
    /\ i \in DueTimers
    /\ LET t == timers[i]
       IN  /\ timers' = RemoveAt(timers, i)
           /\ state' = CASE t.kind = "toZoomed" -> SheetState.ZOOMED_IN
                         [] t.kind = "toIdle" -> SheetState.IDLE
                         [] OTHER -> state
           /\ bright' = IF t.kind = "brightness" /\ state = SheetState.ANIMATING
                        THEN setImageBrightness(bright, t.cell.row, t.cell.col)
                        ELSE bright
           /\ cam' = IF t.kind = "resize" THEN handleResize(viewport, state).cam ELSE cam
           /\ originalFrustum' = IF t.kind = "resize"
                                 THEN handleResize(viewport, state).originalFrustum
                                 ELSE originalFrustum
           /\ main' = IF t.kind = "resize" THEN [main EXCEPT !.resizeTimeout = FALSE] ELSE main
    /\ UNCHANGED << viewport, camPos, currentImage, drag, touch, pinch, posTweens,
                    frTweens, meshes, init, dv, env >>


\* ------------------------------------------------------- pointer geometry
\* A frustum extent (1/FrUnit scene units) in half sheet pixels: divided by
\* layout.scale / 2 = 3.5 / (2 * sheetWidth).
HalfPx(extent) == (extent * 4 * sheetWidth) \div (7 * FrUnit)

\* updatePointerFromTouch + raycaster: a screen point is a point of the camera's
\* view, so the sheet pixel it meets lies inside the frustum around the camera
\* position; the ray can miss the sheet only where the view reaches past it.
Visible(uv) ==
    IF uv.hit
    THEN /\ Abs((2 * uv.x - sheetWidth) - camPos.x) <= HalfPx(cam.right)
         /\ Abs((sheetHeight - 2 * uv.y) - camPos.y) <= HalfPx(cam.top)
    ELSE \/ camPos.x + HalfPx(cam.right) > sheetWidth
         \/ camPos.x - HalfPx(cam.right) < -sheetWidth
         \/ camPos.y + HalfPx(cam.top) > sheetHeight
         \/ camPos.y - HalfPx(cam.top) < -sheetHeight

\* ------------------------------------------------------------ DetailView
zoomFactorX100(vp) ==
    IF vp.w <= MobileBreakpoint THEN DetailZoomFactorMobileX100 ELSE DetailZoomFactorDesktopX100

FrDivide(f, kX100) ==
    [left |-> -((f.right * 100) \div kX100), right |-> (f.right * 100) \div kX100,
     top |-> (f.top * 100) \div kX100, bottom |-> -((f.top * 100) \div kX100)]

\* DetailView.show tweening the camera to the remembered frustum itself,
\* the division by zoomFactor forgotten.
showDetailViewNoZoom ==
    IF state # SheetState.ZOOMED_IN
    THEN UNCHANGED << dv, frTweens >>
    ELSE /\ dv' = [dv EXCEPT !.isVisible = TRUE, !.pointerEvents = dv.attached,
                             !.originalSettings = cam,
                             !.listeners = @ \cup DetailViewShownListeners]
         /\ frTweens' = Append(frTweens,
                FrTween("detailShow", cam, cam, DetailTweenMs, 0))

\* ContactSheet.showDetailView, DetailView.show: remember the camera frustum,
\* make the overlay interactive, tween the camera to the frustum / zoomFactor.
showDetailView ==
    IF state # SheetState.ZOOMED_IN
    THEN UNCHANGED << dv, frTweens >>
    ELSE /\ dv' = [dv EXCEPT !.isVisible = TRUE, !.pointerEvents = dv.attached,
                             !.originalSettings = cam,
                             !.listeners = @ \cup DetailViewShownListeners]
         /\ frTweens' = Append(frTweens,
                FrTween("detailShow", cam, FrDivide(cam, zoomFactorX100(viewport)),
                        DetailTweenMs, 0))

\* DetailView.hide, from the close button, the Escape key or a pinch-in on the
\* overlay while the detail view is shown: tween the camera back to the remembered frustum; the timeline's
\* onComplete makes the overlay inert again.
DetailHide ==
    /\ dv.isVisible
    /\ dv' = [dv EXCEPT !.isVisible = FALSE,
                         !.listeners = @ \ DetailViewShownListeners]
    /\ frTweens' = Append(frTweens,
           FrTween("detailHide", cam, dv.originalSettings, DetailTweenMs, 0))
    /\ UNCHANGED << viewport, cam, camPos, originalFrustum, state, currentImage, drag,
                    touch, pinch, posTweens, timers, bright, meshes, init, main, env >>

\* ------------------------------------------------------------ transitions
\* moveToImage committing the target cell when the tween is created instead of
\* in its onComplete.
moveToImageEager(targetImage) ==
    /\ posTweens' = << PosTween("move", camPos,
                                getImagePosition(targetImage.row, targetImage.col),
                                SubsequentMovementMs, targetImage) >>
    /\ state' = SheetState.ANIMATING
    /\ bright' = setImageBrightness(bright, targetImage.row, targetImage.col)
    /\ currentImage' = targetImage

\* moveToImage: kill the position tweens, ANIMATING, dim the other cells, tween
\* to the target cell (the tween's onComplete is in Tick).
moveToImage(targetImage) ==
    /\ posTweens' = << PosTween("move", camPos,
                                getImagePosition(targetImage.row, targetImage.col),
                                SubsequentMovementMs, targetImage) >>
    /\ state' = SheetState.ANIMATING
    /\ bright' = setImageBrightness(bright, targetImage.row, targetImage.col)
    /\ currentImage' = currentImage

\* zoomToImage without its last statement, this.state = ANIMATING.
zoomToImageNoAnimating(row, col) ==
    LET subsequent == state = SheetState.ZOOMED_IN
    IN  /\ frTweens' = Append(frTweens,
               FrTween("zoomIn", cam, AnimationCalculateZoomFrustum(viewport),
                       IF subsequent THEN SubsequentZoomFrustumMs ELSE InitialZoomFrustumMs, 0))
        /\ posTweens' = Append(posTweens,
               PosTween("zoomIn", camPos, getImagePosition(row, col),
                        IF subsequent THEN SubsequentZoomPositionMs ELSE InitialZoomPositionMs,
                        [row |-> row, col |-> col]))
        /\ state' = state

\* ContactSheet.zoomToImage + SheetAnimation.zoomToImage: the frustum target is
\* computed for the viewport at the time of the call.
zoomToImage(row, col) ==
    LET subsequent == state = SheetState.ZOOMED_IN
    IN  /\ frTweens' = Append(frTweens,
               FrTween("zoomIn", cam, AnimationCalculateZoomFrustum(viewport),
                       IF subsequent THEN SubsequentZoomFrustumMs ELSE InitialZoomFrustumMs, 0))
        /\ posTweens' = Append(posTweens,
               PosTween("zoomIn", camPos, getImagePosition(row, col),
                        IF subsequent THEN SubsequentZoomPositionMs ELSE InitialZoomPositionMs,
                        [row |-> row, col |-> col]))
        /\ state' = SheetState.ANIMATING

\* ContactSheet.zoomOut + SheetAnimation.zoomOut: brightness reset, position
\* tween to the origin, delayed frustum tween to the overview frustum of the
\* viewport at the time of the call.
zoomOut ==
    /\ bright' = resetImageBrightness(bright, meshes)
    /\ posTweens' = Append(posTweens,
           PosTween("zoomOut", camPos, [x |-> 0, y |-> 0], ZoomOutPositionMs, NoCell))
    /\ frTweens' = Append(frTweens,
           FrTween("zoomOut", cam, OverviewFrustum(viewport), ZoomOutFrustumMs, ZoomOutDelayMs))
    /\ state' = SheetState.ANIMATING

\* The 0.1 s snap back to the current cell (touchstart with several touches,
\* pinch start over a moved drag).
snapBack ==
    posTweens' = << PosTween("snap", camPos,
                             getImagePosition(currentImage.row, currentImage.col),
                             SnapBackMs, NoCell) >>

\* ------------------------------------------------------------------- tap
\* Hammer delivers a tap only outside a recognised pan or pinch; the overlay,
\* while interactive, takes the pointer instead of the canvas.
CanvasFree == init.wired /\ ~dv.pointerEvents

\* handleTap without its first line: a tap while ANIMATING is handled like a
\* tap in ZOOMED_IN.
handleTapWhileAnimating(image) ==
    CASE state = SheetState.IDLE /\ image # NoCell ->
           /\ zoomToImage(image.row, image.col)
           /\ timers' = Append(timers, Timer("brightness", BrightnessDelayMs, image))
           /\ UNCHANGED << currentImage, bright, dv >>
      [] state # SheetState.IDLE /\ image # NoCell /\ image = currentImage ->
           /\ showDetailView
           /\ UNCHANGED << state, currentImage, posTweens, timers, bright >>
      [] state # SheetState.IDLE /\ image # NoCell /\ image # currentImage ->
           /\ moveToImage(image)
           /\ UNCHANGED << frTweens, timers, dv >>
      [] OTHER ->
           UNCHANGED << state, currentImage, posTweens, frTweens, timers, bright, dv >>

\* handleTap whose handleImageTap moves only to one of the 8 neighbours of the
\* current image.
handleTapAdjacentOnly(image) ==
    CASE state = SheetState.ANIMATING ->
           UNCHANGED << state, currentImage, posTweens, frTweens, timers, bright, dv >>
      [] state = SheetState.IDLE /\ image # NoCell ->
           /\ zoomToImage(image.row, image.col)
           /\ timers' = Append(timers, Timer("brightness", BrightnessDelayMs, image))
           /\ UNCHANGED << currentImage, bright, dv >>
      [] state = SheetState.ZOOMED_IN /\ image # NoCell /\ image = currentImage ->
           /\ showDetailView
           /\ UNCHANGED << state, currentImage, posTweens, timers, bright >>
      [] /\ state = SheetState.ZOOMED_IN /\ image # NoCell /\ image # currentImage
         /\ Abs(image.row - currentImage.row) <= 1
         /\ Abs(image.col - currentImage.col) <= 1 ->
           /\ moveToImage(image)
           /\ UNCHANGED << frTweens, timers, dv >>
      [] OTHER ->
           UNCHANGED << state, currentImage, posTweens, frTweens, timers, bright, dv >>

\* handleTap: dropped while ANIMATING; handleInitialZoom in IDLE (zoom to the
\* image under the pointer, and a 250 ms timeout for the brightness);
\* handleImageTap in ZOOMED_IN (the detail view on the current image, a move
\* to any other image).
handleTap(image) ==
    CASE state = SheetState.ANIMATING ->
           UNCHANGED << state, currentImage, posTweens, frTweens, timers, bright, dv >>
      [] state = SheetState.IDLE /\ image # NoCell ->
           /\ zoomToImage(image.row, image.col)
           /\ timers' = Append(timers, Timer("brightness", BrightnessDelayMs, image))
           /\ UNCHANGED << currentImage, bright, dv >>
      [] state = SheetState.ZOOMED_IN /\ image # NoCell /\ image = currentImage ->
           /\ showDetailView
           /\ UNCHANGED << state, currentImage, posTweens, timers, bright >>
      [] state = SheetState.ZOOMED_IN /\ image # NoCell /\ image # currentImage ->
           /\ moveToImage(image)
           /\ UNCHANGED << frTweens, timers, dv >>
      [] OTHER ->
           UNCHANGED << state, currentImage, posTweens, frTweens, timers, bright, dv >>

\* Hammer can recognise a tap (or a double tap) on a point of the view.
TapDeliverable(uv) ==
    /\ CanvasFree /\ ~env.pan /\ ~env.pinch /\ env.fingers <= 1
    /\ Visible(uv)

\* Hammer's tap, on a point of the view.
Tap(uv) ==
    /\ TapDeliverable(uv)
    /\ handleTap(getImageAtPointer(uv))
    /\ UNCHANGED << viewport, cam, camPos, originalFrustum, drag, touch,
                    pinch, meshes, init, main, env >>

\* Hammer's doubletap: GestureManager.handleDoubleTap forwards it to
\* callbacks.onDoubleTap, which the controller does not supply.
DoubleTap(uv) ==
    /\ TapDeliverable(uv)
    /\ UNCHANGED vars

\* Hammer's swipe, at the end of a fast pan: handleSwipe has an empty body.
Swipe ==
    /\ init.wired /\ env.pan
    /\ UNCHANGED vars


\* ------------------------------------------------------------------- pan
\* isDragging = false.  The other drag fields are only read under isDragging
\* and handlePanStart rewrites them all, so they are cleared with it.
StopDrag == NoDrag

\* Hammer's pan session is over and isDragging was left as it is: start, last,
\* velocity and swipeDirection cannot be read again before the next
\* handlePanStart rewrites them.
EndSession(d) == [NoDrag EXCEPT !.isDragging = d.isDragging, !.moved = d.moved]

\* The pointer displacements (px) and elapsed times (ms) between two pan events.
PanSteps ==
    { [dx |-> -80, dy |-> 0, dt |-> 400], [dx |-> 80, dy |-> 0, dt |-> 400],
      [dx |-> -20, dy |-> 0, dt |-> 16],  [dx |-> 3, dy |-> 0, dt |-> 400],
      [dx |-> 0, dy |-> -80, dt |-> 400], [dx |-> 0, dy |-> 80, dt |-> 400],
      [dx |-> 0, dy |-> 20, dt |-> 16] }

\* handlePanStart.  Hammer recognises a pan with one pointer, outside a pinch.
PanStart ==
    /\ CanvasFree /\ ~env.pan /\ ~env.pinch /\ env.fingers <= 1
    /\ env.pans < MaxPanSessions
    /\ env.pans + env.resizes < MaxPansAndResizes
    /\ LET begins == /\ ~(touch.count > 1 \/ touch.multi)
                      /\ state # SheetState.ANIMATING
                      /\ state = SheetState.ZOOMED_IN
       IN  /\ drag' = IF begins THEN [NoDrag EXCEPT !.isDragging = TRUE] ELSE drag
           /\ env' = [env EXCEPT !.pan = TRUE, !.pans = @ + 1,
                                 !.gate = IF @ = "released" /\ begins THEN "clear" ELSE @]
    /\ UNCHANGED << viewport, cam, camPos, originalFrustum, state, currentImage, touch,
                    pinch, posTweens, frTweens, timers, bright, meshes, init, dv, main >>

\* (px) * scale, scale = (camera.top - camera.bottom) / innerHeight, in half sheet pixels.
PanDelta(px) == (px * HalfPx(cam.top - cam.bottom)) \div viewport.h

\* handlePanMove deciding the swipe axis anew on every move.
PanMoveRedecides(step) ==
    /\ init.wired /\ env.pan /\ drag.n < MaxPanMoves
    /\ IF touch.count > 1 \/ touch.multi
       THEN /\ drag' = StopDrag
            /\ camPos' = camPos
       ELSE IF ~drag.isDragging \/ state # SheetState.ZOOMED_IN
       THEN UNCHANGED << drag, camPos >>
       ELSE LET ndx == drag.dx + step.dx
                ndy == drag.dy + step.dy
                moved == \/ drag.moved
                         \/ Abs(ndx) > DRAG_THRESHOLD
                         \/ Abs(ndy) > DRAG_THRESHOLD
                dir == IF Abs(ndx) > Abs(ndy) THEN "horizontal" ELSE "vertical"
            IN  /\ drag' = [isDragging |-> TRUE, moved |-> moved, dir |-> dir,
                            dx |-> ndx, dy |-> ndy,
                            vx |-> step.dx, vy |-> step.dy, vdt |-> step.dt,
                            n |-> drag.n + 1]
                /\ camPos' = IF dir = "horizontal"
                             THEN [camPos EXCEPT !.x = @ - PanDelta(step.dx)]
                             ELSE [camPos EXCEPT !.y = @ + PanDelta(step.dy)]
    /\ UNCHANGED << viewport, cam, originalFrustum, state, currentImage, touch, pinch,
                    posTweens, frTweens, timers, bright, meshes, init, dv, main, env >>

\* handlePanMove.
PanMove(step) ==
    /\ init.wired /\ env.pan /\ drag.n < MaxPanMoves
    /\ IF touch.count > 1 \/ touch.multi
       THEN /\ drag' = StopDrag
            /\ camPos' = camPos
       ELSE IF ~drag.isDragging \/ state # SheetState.ZOOMED_IN
       THEN UNCHANGED << drag, camPos >>
       ELSE LET ndx == drag.dx + step.dx
                ndy == drag.dy + step.dy
                moved == \/ drag.moved
                         \/ Abs(ndx) > DRAG_THRESHOLD
                         \/ Abs(ndy) > DRAG_THRESHOLD
                dir == IF drag.dir = "none"
                       THEN (IF Abs(ndx) > Abs(ndy) THEN "horizontal" ELSE "vertical")
                       ELSE drag.dir
            IN  /\ drag' = [isDragging |-> TRUE, moved |-> moved, dir |-> dir,
                            dx |-> ndx, dy |-> ndy,
                            vx |-> step.dx, vy |-> step.dy, vdt |-> step.dt,
                            n |-> drag.n + 1]
                /\ camPos' = IF dir = "horizontal"
                             THEN [camPos EXCEPT !.x = @ - PanDelta(step.dx)]
                             ELSE [camPos EXCEPT !.y = @ + PanDelta(step.dy)]
    /\ UNCHANGED << viewport, cam, originalFrustum, state, currentImage, touch, pinch,
                    posTweens, frTweens, timers, bright, meshes, init, dv, main, env >>

\* |v| > SWIPE_VELOCITY_THRESHOLD for v = num / dt px/ms.
FastEnough(num, dt) == Abs(num) * 10 > SWIPE_VELOCITY_THRESHOLD_X10 * dt

\* The commit target without Math.max / Math.min.
PanEndTargetUnclamped(d, cur) ==
    IF d.dir = "horizontal"
    THEN IF FastEnough(d.vx, d.vdt) \/ Abs(d.dx) > SWIPE_DISTANCE_THRESHOLD
         THEN IF d.vx > 0 \/ d.dx > 0
              THEN [cur EXCEPT !.col = cur.col - 1]
              ELSE [cur EXCEPT !.col = cur.col + 1]
         ELSE cur
    ELSE IF FastEnough(d.vy, d.vdt) \/ Abs(d.dy) > SWIPE_DISTANCE_THRESHOLD
         THEN IF d.vy > 0 \/ d.dy > 0
              THEN [cur EXCEPT !.row = cur.row - 1]
              ELSE [cur EXCEPT !.row = cur.row + 1]
         ELSE cur

\* handlePanEnd deciding on the axis of the larger net displacement instead of
\* the locked swipeDirection.
PanEndTargetByLargerAxis(d, cur) ==
    IF Abs(d.dx) > Abs(d.dy)
    THEN IF FastEnough(d.vx, d.vdt) \/ Abs(d.dx) > SWIPE_DISTANCE_THRESHOLD
         THEN IF d.vx > 0 \/ d.dx > 0
              THEN [cur EXCEPT !.col = Max(0, cur.col - 1)]
              ELSE [cur EXCEPT !.col = Min(columns - 1, cur.col + 1)]
         ELSE cur
    ELSE IF FastEnough(d.vy, d.vdt) \/ Abs(d.dy) > SWIPE_DISTANCE_THRESHOLD
         THEN IF d.vy > 0 \/ d.dy > 0
              THEN [cur EXCEPT !.row = Max(0, cur.row - 1)]
              ELSE [cur EXCEPT !.row = Min(rows - 1, cur.row + 1)]
         ELSE cur

\* The cell handlePanEnd commits to: one cell along the locked axis when the
\* velocity or the total displacement passes its threshold, clamped to the grid.
PanEndTarget(d, cur) ==
    IF d.dir = "horizontal"
    THEN IF FastEnough(d.vx, d.vdt) \/ Abs(d.dx) > SWIPE_DISTANCE_THRESHOLD
         THEN IF d.vx > 0 \/ d.dx > 0
              THEN [cur EXCEPT !.col = Max(0, cur.col - 1)]
              ELSE [cur EXCEPT !.col = Min(columns - 1, cur.col + 1)]
         ELSE cur
    ELSE IF FastEnough(d.vy, d.vdt) \/ Abs(d.dy) > SWIPE_DISTANCE_THRESHOLD
         THEN IF d.vy > 0 \/ d.dy > 0
              THEN [cur EXCEPT !.row = Max(0, cur.row - 1)]
              ELSE [cur EXCEPT !.row = Min(rows - 1, cur.row + 1)]
         ELSE cur

\* handlePanEnd.
PanEnd ==
    /\ init.wired /\ env.pan
    /\ env' = [env EXCEPT !.pan = FALSE]
    /\ IF touch.count > 1 \/ touch.multi
       THEN /\ drag' = StopDrag
            /\ UNCHANGED << state, currentImage, posTweens, bright >>
       ELSE IF ~drag.isDragging \/ state # SheetState.ZOOMED_IN \/ pinch.isPinching
       THEN /\ drag' = EndSession(drag)
            /\ UNCHANGED << state, currentImage, posTweens, bright >>
       ELSE /\ drag' = StopDrag
            /\ IF ~drag.moved
               THEN UNCHANGED << state, currentImage, posTweens, bright >>
               ELSE moveToImage(PanEndTarget(drag, currentImage))
    /\ UNCHANGED << viewport, cam, camPos, originalFrustum, touch, pinch,
                    frTweens, timers, meshes, init, dv, main >>


\* -------------------------------------------------------- touch monitors
\* touchStartHandler snapping back whatever the state: the position tween of
\* a transition under way is killed with its onComplete.
TouchStartSnapsInAnyState ==
    /\ CanvasFree /\ env.fingers < MaxTouches
    /\ LET touchCount == env.fingers + 1
       IN  /\ env' = [env EXCEPT !.fingers = touchCount,
                                 !.pan = IF touchCount > 1 THEN FALSE ELSE @,
                                 !.gate = IF touchCount > 1 THEN "multi"
                                          ELSE IF @ = "multi" THEN "released" ELSE @]
           /\ touch' = [count |-> touchCount, multi |-> touchCount > 1]
           /\ drag' = IF touchCount > 1 THEN StopDrag ELSE drag
           /\ IF touchCount > 1
              THEN snapBack
              ELSE posTweens' = posTweens
    /\ UNCHANGED << viewport, cam, camPos, originalFrustum, state, currentImage, pinch,
                    frTweens, timers, bright, meshes, init, dv, main >>

\* touchStartHandler.  A second touch point also ends Hammer's one-pointer pan
\* (pancancel, which has no listener).
TouchStart ==
    /\ CanvasFree /\ env.fingers < MaxTouches
    /\ LET touchCount == env.fingers + 1
       IN  /\ env' = [env EXCEPT !.fingers = touchCount,
                                 !.pan = IF touchCount > 1 THEN FALSE ELSE @,
                                 !.gate = IF touchCount > 1 THEN "multi"
                                          ELSE IF @ = "multi" THEN "released" ELSE @]
           /\ touch' = [count |-> touchCount, multi |-> touchCount > 1]
           /\ drag' = IF touchCount > 1 THEN StopDrag ELSE drag
           /\ IF touchCount > 1 /\ state = SheetState.ZOOMED_IN
              THEN snapBack
              ELSE posTweens' = posTweens
    /\ UNCHANGED << viewport, cam, camPos, originalFrustum, state, currentImage, pinch,
                    frTweens, timers, bright, meshes, init, dv, main >>

\* touchMoveHandler.
TouchMove ==
    /\ init.wired /\ env.fingers >= 1
    /\ LET touchCount == env.fingers
       IN  /\ drag' = IF touchCount > 1 /\ ~touch.multi THEN StopDrag ELSE drag
           /\ touch' = [count |-> touchCount,
                        multi |-> IF touchCount > 1 /\ ~touch.multi THEN TRUE ELSE touch.multi]
           /\ env' = [env EXCEPT !.gate = IF touchCount > 1 THEN "multi" ELSE @]
    /\ UNCHANGED << viewport, cam, camPos, originalFrustum, state, currentImage, pinch,
                    posTweens, frTweens, timers, bright, meshes, init, dv, main >>

\* touchEndHandler clearing multiTouchActive as soon as fewer than two touch
\* points remain.
TouchEndClearsMulti ==
    /\ init.wired /\ env.fingers >= 1
    /\ env.fingers = 2 => ~env.pinch
    /\ env.fingers = 1 => ~env.pan
    /\ LET touchCount == env.fingers - 1
       IN  /\ env' = [env EXCEPT !.fingers = touchCount,
                                 !.gate = IF touchCount > 1 THEN "multi"
                                          ELSE IF touchCount = 0 /\ @ = "multi" THEN "released"
                                          ELSE @]
           /\ touch' = [count |-> touchCount, multi |-> touchCount > 1]
    /\ UNCHANGED << viewport, cam, camPos, originalFrustum, state, currentImage, drag,
                    pinch, posTweens, frTweens, timers, bright, meshes, init, dv, main >>

\* touchEndHandler.  Hammer sees the pointer go up first, so its panend or
\* pinchend for this finger has been delivered before.
TouchEnd ==
    /\ init.wired /\ env.fingers >= 1
    /\ env.fingers = 2 => ~env.pinch
    /\ env.fingers = 1 => ~env.pan
    /\ LET touchCount == env.fingers - 1
       IN  /\ env' = [env EXCEPT !.fingers = touchCount,
                                 !.gate = IF touchCount > 1 THEN "multi"
                                          ELSE IF touchCount = 0 /\ @ = "multi" THEN "released"
                                          ELSE @]
           /\ touch' = [count |-> touchCount,
                        multi |-> IF touchCount = 0 THEN FALSE ELSE touch.multi]
    /\ UNCHANGED << viewport, cam, camPos, originalFrustum, state, currentImage, drag,
                    pinch, posTweens, frTweens, timers, bright, meshes, init, dv, main >>

\* touchCancelHandler: the system takes every touch away; Hammer cancels its
\* recognisers (pancancel, pinchcancel: no listeners), so isDragging,
\* isPinching and initialPinchScale stay as they are.
TouchCancel ==
    /\ init.wired /\ env.fingers >= 1
    /\ env' = [env EXCEPT !.fingers = 0, !.pan = FALSE, !.pinch = FALSE,
                          !.gate = IF @ = "multi" THEN "released" ELSE @]
    /\ touch' = [count |-> 0, multi |-> FALSE]
    /\ drag' = EndSession(drag)
    /\ UNCHANGED << viewport, cam, camPos, originalFrustum, state, currentImage, pinch,
                    posTweens, frTweens, timers, bright, meshes, init, dv, main >>

\* gestureChangeHandler (Safari's gesturestart / gesturechange).
GestureChange ==
    /\ CanvasFree
    /\ drag' = StopDrag
    /\ touch' = [touch EXCEPT !.multi = TRUE]
    /\ UNCHANGED << viewport, cam, camPos, originalFrustum, state, currentImage, pinch,
                    posTweens, frTweens, timers, bright, meshes, init, dv, main, env >>

\* ----------------------------------------------------------------- pinch
\* event.scale in percent.  Hammer's pinch starts past its 0.1 threshold, and
\* names the event pinchin below scale 1, pinchout above.
PinchStartScales == {115}
PinchInScales == {75, 90}
PinchOutScales == {120, 160}

\* handlePinchStart without its last test: the pinch stays armed wherever its
\* centre is.
PinchStartAnywhere(uv, scale) ==
    /\ CanvasFree /\ env.fingers >= 2 /\ ~env.pinch
    /\ Visible(uv)
    /\ env' = [env EXCEPT !.pinch = TRUE, !.pan = FALSE]
    /\ IF state # SheetState.ZOOMED_IN
       THEN UNCHANGED << pinch, drag, posTweens >>
       ELSE /\ pinch' = [isPinching |-> TRUE, scale0 |-> scale]
            /\ drag' = IF drag.isDragging THEN StopDrag ELSE drag
            /\ IF drag.isDragging /\ drag.moved
               THEN snapBack
               ELSE posTweens' = posTweens
    /\ UNCHANGED << viewport, cam, camPos, originalFrustum, state, currentImage, touch,
                    frTweens, timers, bright, meshes, init, dv, main >>

\* handlePinchStart.
PinchStart(uv, scale) ==
    /\ CanvasFree /\ env.fingers >= 2 /\ ~env.pinch
    /\ Visible(uv)
    /\ env' = [env EXCEPT !.pinch = TRUE, !.pan = FALSE]
    /\ IF state # SheetState.ZOOMED_IN
       THEN UNCHANGED << pinch, drag, posTweens >>
       ELSE LET image == getImageAtPointer(uv)
            IN  /\ pinch' = IF image = NoCell \/ image # currentImage THEN NoPinch
                            ELSE [isPinching |-> TRUE, scale0 |-> scale]
                /\ drag' = IF drag.isDragging THEN StopDrag ELSE drag
                /\ IF drag.isDragging /\ drag.moved
                   THEN snapBack
                   ELSE posTweens' = posTweens
    /\ UNCHANGED << viewport, cam, camPos, originalFrustum, state, currentImage, touch,
                    frTweens, timers, bright, meshes, init, dv, main >>

\* handlePinchOut: past 1.3 times the initial scale, the detail view.
PinchOut(scale) ==
    /\ init.wired /\ env.pinch
    /\ IF ~pinch.isPinching \/ state # SheetState.ZOOMED_IN
       THEN UNCHANGED << pinch, drag, dv, frTweens >>
       ELSE IF scale * 10 > PinchOutRatioX10 * pinch.scale0
       THEN /\ pinch' = NoPinch
            /\ drag' = StopDrag
            /\ showDetailView
       ELSE UNCHANGED << pinch, drag, dv, frTweens >>
    /\ UNCHANGED << viewport, cam, camPos, originalFrustum, state, currentImage, touch,
                    posTweens, timers, bright, meshes, init, main, env >>

\* handlePinchIn: below 0.7 times the initial scale, zoom out.
PinchIn(scale) ==
    /\ init.wired /\ env.pinch
    /\ IF ~pinch.isPinching \/ state # SheetState.ZOOMED_IN
       THEN UNCHANGED << pinch, drag, state, posTweens, frTweens, bright >>
       ELSE IF scale * 10 < PinchInRatioX10 * pinch.scale0
       THEN /\ pinch' = NoPinch
            /\ drag' = StopDrag
            /\ zoomOut
       ELSE UNCHANGED << pinch, drag, state, posTweens, frTweens, bright >>
    /\ UNCHANGED << viewport, cam, camPos, originalFrustum, currentImage, touch,
                    timers, meshes, init, dv, main, env >>

\* handlePinchEnd.
PinchEnd ==
    /\ init.wired /\ env.pinch
    /\ env' = [env EXCEPT !.pinch = FALSE]
    /\ pinch' = NoPinch
    /\ UNCHANGED << viewport, cam, camPos, originalFrustum, state, currentImage, drag,
                    touch, posTweens, frTweens, timers, bright, meshes, init, dv, main >>

\* ---------------------------------------------------------------- dispose
\* What dispose() works on: the listeners of the controller and its gesture
\* manager, the scene (sheet and cell meshes), gsap's tweens of the camera and
\* of its position, and the DetailView (flag, listeners, container).
Registry ==
    [listeners |-> init.listeners, sheet |-> init.sheet, meshes |-> meshes,
     posTweens |-> posTweens, frTweens |-> frTweens,
     dvVisible |-> dv.isVisible, dvListeners |-> dv.listeners, dvAttached |-> dv.attached]

\* dispose removing, on each call, only the listener it finds first.
disposeOneListener(r) ==
    [listeners |-> IF r.listeners = {} THEN {}
                   ELSE r.listeners \ {CHOOSE l \in r.listeners : TRUE},
     sheet |-> FALSE,
     meshes |-> [c \in Cells |-> "none"],
     posTweens |-> << >>,
     frTweens |-> << >>,
     dvVisible |-> FALSE,
     dvListeners |-> r.dvListeners \ {"hammer", "containerTouch", "keydown", "resize"},
     dvAttached |-> FALSE]

\* ContactSheet.dispose, with GestureManager.dispose and DetailView.dispose:
\* every listener the controller still refers to (the eventListeners array,
\* the current gesture manager, the current touch and gesture handlers) is
\* removed (removing one that is not registered does nothing, and Hammer's
\* destroy can be repeated), the sheet and the cell
\* meshes leave the scene, the tweens of the camera and of its position are
\* killed, the overlay's container leaves the document if it is still in it.
\* The close button's click listener stays on the detached button.  Pending
\* timeouts are not cleared.
dispose(r) ==
    [listeners |-> r.listeners \ ControllerListeners,
     sheet |-> FALSE,
     meshes |-> [c \in Cells |-> "none"],
     posTweens |-> << >>,
     frTweens |-> << >>,
     dvVisible |-> FALSE,
     dvListeners |-> r.dvListeners \ {"hammer", "containerTouch", "keydown", "resize"},
     dvAttached |-> FALSE]

\* main.js 'beforeunload', delivered once init() has settled, while no finger
\* is on the screen (and again when the user stays on the page):
\* contactSheet.dispose(), then main.js removes its own listeners.  The
\* gesture handlers are wired as long as the Hammer handlers are registered; a
\* container out of the document takes no pointer.
BeforeUnload ==
    /\ env.unloads < MaxUnloads
    /\ init.phase \in {"ready", "rejected"}
    /\ env.fingers = 0 /\ ~env.pan /\ ~env.pinch
    /\ env' = [env EXCEPT !.unloads = @ + 1]
    /\ LET r == dispose(Registry)
       IN  /\ init' = [init EXCEPT !.listeners = r.listeners, !.sheet = r.sheet,
                                   !.wired = \/ "hammer" \in r.listeners
                                             \/ FirstInit("hammer") \in r.listeners]
           /\ meshes' = r.meshes
           /\ posTweens' = r.posTweens
           /\ frTweens' = r.frTweens
           /\ dv' = [dv EXCEPT !.isVisible = r.dvVisible, !.listeners = r.dvListeners,
                               !.attached = r.dvAttached,
                               !.pointerEvents = @ /\ r.dvAttached,
                               !.originalSettings = IF r.dvVisible THEN @ ELSE NoFrustum]
    /\ main' = [main EXCEPT !.listening = FALSE]
    /\ UNCHANGED << viewport, cam, camPos, originalFrustum, state, currentImage, drag,
                    touch, pinch, timers, bright >>

\* ------------------------------------------------------------------ system
Next ==
    \/ SetupSheetSettles
    \/ ImageLoadSettles
    \/ InitCompletes
    \/ \E vp \in Viewports : Resize(vp)
    \/ Tick
    \/ \E i \in 1 .. Len(timers) : TimerFire(i)
    \/ \E uv \in PointerHits : Tap(uv)
    \/ \E uv \in PointerHits : DoubleTap(uv)
    \/ Swipe
    \/ PanStart
    \/ \E step \in PanSteps : PanMove(step)
    \/ PanEnd
    \/ TouchStart
    \/ TouchMove
    \/ TouchEnd
    \/ TouchCancel
    \/ GestureChange
    \/ \E uv \in PointerHits, scale \in PinchStartScales : PinchStart(uv, scale)
    \/ \E scale \in PinchOutScales : PinchOut(scale)
    \/ \E scale \in PinchInScales : PinchIn(scale)
    \/ PinchEnd
    \/ DetailHide
    \/ BeforeUnload

Spec == Init /\ [][Next]_vars

\* gsap's ticker keeps rendering while tweens run and the browser runs due
\* timeouts: every tween that is not killed completes and every timer fires.
SpecLive ==
    /\ Spec
    /\ WF_vars(Tick)
    /\ WF_vars(\E i \in 1 .. Len(timers) : TimerFire(i))

\* ---------------------------------------------------------------- geometry
\* The scan of findNearestImage from cell i on, rows outside and columns
\* inside; min is the squared distance of best, -1 while it is Infinity.
RECURSIVE NearestFrom(_, _, _, _, _)
NearestFrom(x, y, i, best, min) ==
    IF i >= rows * columns THEN best
    ELSE LET cell == CellOfIndex(i)
             pos == getImagePosition(cell.row, cell.col)
             dist == (x - pos.x) * (x - pos.x) + (y - pos.y) * (y - pos.y)
         IN  IF min < 0 \/ dist < min
             THEN NearestFrom(x, y, i + 1, cell, dist)
             ELSE NearestFrom(x, y, i + 1, best, min)

\* findNearestImage answering { row: nearestCol, col: nearestRow }.
findNearestImageTransposed(x, y) ==
    LET nearest == NearestFrom(x, y, 0, [row |-> 0, col |-> 0], -1)
    IN  [row |-> nearest.col, col |-> nearest.row]

\* findNearestImage(x, y, layout), positions in half sheet pixels.  dist is the
\* square of Math.sqrt(dx^2 + dy^2): the order of the distances is the order
\* of their squares.
findNearestImage(x, y) == NearestFrom(x, y, 0, [row |-> 0, col |-> 0], -1)

\* The positions findNearestImage is asked about: every cell centre, and the
\* points 200 sheet pixels left, right, above and below it.
QueryOffsets == { [x |-> 0, y |-> 0], [x |-> -400, y |-> 0], [x |-> 400, y |-> 0],
                  [x |-> 0, y |-> -400], [x |-> 0, y |-> 400] }
QueryPoints ==
    { [x |-> getImagePosition(c.row, c.col).x + o.x,
       y |-> getImagePosition(c.row, c.col).y + o.y] : c \in Cells, o \in QueryOffsets }

\* The geometry functions on their own, asked once about the constructed
\* controller: camPos is the position asked about, currentImage the cell
\* findNearestImage answers.
Nearest(p) ==
    /\ camPos = [x |-> 0, y |-> 0]
    /\ camPos' = p
    /\ currentImage' = findNearestImage(p.x, p.y)
    /\ UNCHANGED << viewport, cam, originalFrustum, state, drag, touch, pinch, posTweens,
                    frTweens, timers, bright, meshes, init, dv, main, env >>

GeometryNext == \E p \in QueryPoints : Nearest(p)

SpecGeometry == Init /\ [][GeometryNext]_vars

\* ================================================================ properties
\* A step in which a tween-completion callback runs: the onComplete of a
\* zoom-in or move position tween that ends in this gsap tick, or the cooldown
\* timeout such a callback (or the zoom-out's) scheduled.
CompletionStep ==
    \/ /\ \E i \in 1 .. Len(posTweens) :
             /\ posTweens[i].kind \in {"zoomIn", "move"}
             /\ posTweens[i].el + 1 >= posTweens[i].dur
       /\ Tick
    \/ \E i \in DueTimers : timers[i].kind \in {"toZoomed", "toIdle"} /\ TimerFire(i)

\* C1: while the state is ANIMATING (the step that enters it included) no
\* gesture handler changes state or currentImage: currentImage changes, and
\* the state leaves ANIMATING, only in a step that runs a tween-completion
\* callback or the cooldown timeout it scheduled.
C1_OnlyCompletionCommits ==
    [][ /\ ( /\ state = SheetState.ANIMATING \/ state' = SheetState.ANIMATING
             /\ currentImage' # currentImage ) => CompletionStep
        /\ ( state = SheetState.ANIMATING /\ state' # state ) => CompletionStep
      ]_vars

\* Two fingers are down and a pinch session is open while a transition is in
\* flight: touch and pinch events are being handled in ANIMATING.
C1_Witness ==
    /\ state = SheetState.ANIMATING
    /\ env.fingers = 2 /\ env.pinch
    /\ posTweens # << >>

TransitionKinds == {"zoomIn", "move", "zoomOut"}

\* The step creates the position tween of a zoom-in, a move or a zoom-out.
StartsTransition ==
    /\ posTweens' # posTweens
    /\ posTweens' # << >>
    /\ Last(posTweens').el = 0
    /\ Last(posTweens').kind \in TransitionKinds

\* At most one zoom-in / move / zoom-out is in flight, and the state is
\* ANIMATING while one is.
AtMostOneTransition ==
    LET p == { i \in 1 .. Len(posTweens) : posTweens[i].kind \in TransitionKinds }
        f == { i \in 1 .. Len(frTweens) : frTweens[i].kind \in TransitionKinds }
    IN  /\ Cardinality(p) <= 1
        /\ Cardinality(f) <= 1
        /\ \A i \in p, j \in f : posTweens[i].kind = frTweens[j].kind
        /\ (p # {} \/ f # {}) => state = SheetState.ANIMATING

\* C2: a zoom-in, move or zoom-out is started only from IDLE or ZOOMED_IN and
\* only by the gesture being handled (never by a gsap tick or a timeout, so a
\* gesture dropped during ANIMATING starts nothing later), and at most one such
\* transition is in flight at any time.
C2_TransitionsOnlyWhenSettled ==
    [][ /\ StartsTransition =>
              /\ state \in {SheetState.IDLE, SheetState.ZOOMED_IN}
              /\ ~Tick
              /\ ~(\E i \in DueTimers : TimerFire(i))
        /\ AtMostOneTransition'
      ]_vars

\* A pan-start was delivered during a transition and dropped; the transition
\* has completed, the pan session is still open and nothing is in flight.
C2_Witness ==
    /\ state = SheetState.ZOOMED_IN
    /\ env.pan /\ env.fingers = 1 /\ ~drag.isDragging
    /\ ~touch.multi /\ env.gate = "clear"
    /\ posTweens = << >> /\ frTweens = << >> /\ timers = << >>

\* A release now would commit a move past the edge of the grid: the drag is
\* past a threshold and its direction, as handlePanEnd reads it, points outward.
OutwardAtEdge ==
    /\ state = SheetState.ZOOMED_IN /\ drag.isDragging /\ drag.moved
    /\ \/ /\ drag.dir = "horizontal"
          /\ FastEnough(drag.vx, drag.vdt) \/ Abs(drag.dx) > SWIPE_DISTANCE_THRESHOLD
          /\ IF drag.vx > 0 \/ drag.dx > 0 THEN currentImage.col = 0
                                           ELSE currentImage.col = columns - 1
       \/ /\ drag.dir = "vertical"
          /\ FastEnough(drag.vy, drag.vdt) \/ Abs(drag.dy) > SWIPE_DISTANCE_THRESHOLD
          /\ IF drag.vy > 0 \/ drag.dy > 0 THEN currentImage.row = 0
                                           ELSE currentImage.row = rows - 1

\* C3: currentImage is always a cell of the grid, so is the cell every zoom-in
\* or move in flight will commit, and a drag released at an edge of the grid
\* in the outward direction targets the current cell.
C3_CurrentImageInGrid ==
    /\ currentImage \in Cells
    /\ \A i \in 1 .. Len(posTweens) :
          posTweens[i].kind \in {"zoomIn", "move"} => posTweens[i].cell \in Cells
    /\ OutwardAtEdge => PanEndTarget(drag, currentImage) = currentImage

\* A drag of column 0 toward column -1 was released: the move tween in flight
\* started well left of the cell's resting position and targets the current cell.
C3_Witness ==
    /\ currentImage.col = 0
    /\ posTweens # << >>
    /\ Last(posTweens).kind = "move"
    /\ Last(posTweens).cell = currentImage
    /\ Last(posTweens).fx < getImagePosition(currentImage.row, currentImage.col).x - 200

\* C4: once a touch event has reported two or more touch points, no pan-move
\* changes the camera position until a touch event has reported none (or a
\* fresh touchstart exactly one) and a pan-start has then begun a new drag
\* session; env.gate is "clear" exactly when no such episode is pending.
C4_NoPanAfterMultiTouch ==
    [][ ( env.gate # "clear" /\ \E step \in PanSteps : PanMove(step) )
            => camPos' = camPos ]_vars

\* One of two fingers was lifted and Hammer has begun a pan with the finger
\* that remains, in ZOOMED_IN: its pan-moves are being delivered.
C4_Witness ==
    /\ state = SheetState.ZOOMED_IN
    /\ env.gate = "multi" /\ env.fingers = 1 /\ env.pan
    /\ camPos = getImagePosition(currentImage.row, currentImage.col)

\* The zoom-in position tween of the step's pre-state ends in this gsap tick.
ZoomInCompletes(i) ==
    /\ i \in 1 .. Len(posTweens)
    /\ posTweens[i].kind = "zoomIn"
    /\ posTweens[i].el + 1 >= posTweens[i].dur
    /\ Tick

ZoomInInFlight(tws) == \E i \in 1 .. Len(tws) : tws[i].kind = "zoomIn"

\* C5: a tap in IDLE on a cell sets the state to ANIMATING in the same step and
\* leaves currentImage alone, a tap on no cell leaves the state IDLE; while the
\* zoom-in position tween is in flight the state is ANIMATING and currentImage
\* does not change; the tick that completes that tween sets the state to
\* ZOOMED_IN and currentImage to the tapped cell.
C5_TapZoomsIn ==
    [][ /\ \A uv \in PointerHits :
              (state = SheetState.IDLE /\ Tap(uv)) =>
                  IF getImageAtPointer(uv) # NoCell
                  THEN state' = SheetState.ANIMATING /\ currentImage' = currentImage
                  ELSE state' = SheetState.IDLE
        /\ ZoomInInFlight(posTweens') =>
              /\ state' = SheetState.ANIMATING
              /\ ZoomInInFlight(posTweens) => currentImage' = currentImage
        /\ \A i \in 1 .. Len(posTweens) :
              ZoomInCompletes(i) =>
                  /\ state' = SheetState.ZOOMED_IN
                  /\ currentImage' = posTweens[i].cell
      ]_vars

\* The zoom-in on cell (5,5) has just completed.
C5_Witness ==
    /\ state = SheetState.ZOOMED_IN
    /\ currentImage = [row |-> 5, col |-> 5]
    /\ camPos = getImagePosition(5, 5)
    /\ posTweens = << >>
    /\ env.pans = 0

\* handlePanEnd commits a move in this step (the drag had moved past the click
\* threshold and passed a swipe threshold).
PanEndCommits ==
    /\ PanEnd
    /\ posTweens' # posTweens
    /\ PanEndTarget(drag, currentImage) # currentImage \/ OutwardAtEdge

\* C6: a released drag whose net displacement is past 50 px while its velocity
\* is at most 0.3 px/ms commits in the direction of the displacement, whatever
\* the sign of that velocity: column + 1 (row + 1) for a negative displacement,
\* column - 1 (row - 1) for a positive one, clamped to the grid.
C6_DirectionFollowsDisplacement ==
    [][ PanEndCommits =>
          LET target == Last(posTweens').cell
          IN  /\ ( /\ drag.dir = "horizontal"
                   /\ ~FastEnough(drag.vx, drag.vdt)
                   /\ Abs(drag.dx) > SWIPE_DISTANCE_THRESHOLD ) =>
                      target = [currentImage EXCEPT !.col =
                                   IF drag.dx < 0 THEN Min(columns - 1, @ + 1)
                                                  ELSE Max(0, @ - 1)]
              /\ ( /\ drag.dir = "vertical"
                   /\ ~FastEnough(drag.vy, drag.vdt)
                   /\ Abs(drag.dy) > SWIPE_DISTANCE_THRESHOLD ) =>
                      target = [currentImage EXCEPT !.row =
                                   IF drag.dy < 0 THEN Min(rows - 1, @ + 1)
                                                  ELSE Max(0, @ - 1)]
      ]_vars

\* C7: whenever a double-tap can be delivered in ZOOMED_IN, delivering it
\* starts the zoom-out (the state becomes ANIMATING).
C7_DoubleTapZoomsOut ==
    ( state = SheetState.ZOOMED_IN /\ \E uv \in PointerHits : ENABLED DoubleTap(uv) )
        => ENABLED ( \E uv \in PointerHits : DoubleTap(uv) /\ state' = SheetState.ANIMATING )

\* The zoom-out frustum tween of the step's pre-state ends in this gsap tick.
ZoomOutCompletes ==
    /\ \E i \in 1 .. Len(frTweens) :
          /\ frTweens[i].kind = "zoomOut"
          /\ frTweens[i].delay = 0
          /\ frTweens[i].el + 1 >= frTweens[i].dur
    /\ Tick

\* C8: when the zoom-out completes, originalFrustum is the overview frustum of
\* the viewport of that moment.
C8_OriginalFrustumFreshAtZoomOutEnd ==
    [][ ZoomOutCompletes => originalFrustum' = OverviewFrustum(viewport') ]_vars

\* The focused frustums of a viewport: SheetAnimation's and SheetUtils'.
FocusedFrustums(vp) == { AnimationCalculateZoomFrustum(vp), calculateZoomFrustum(vp) }

\* C9: when a zoom-in completes, the camera frustum is the focused frustum of
\* the viewport of that moment, also after a resize during the zoom-in.
C9_ZoomInEndsOnLatestViewport ==
    [][ (\E i \in 1 .. Len(posTweens) : ZoomInCompletes(i))
            => cam' \in FocusedFrustums(viewport') ]_vars

\* C10: when every cell load fails, init() never completes normally: it is
\* rejected at the latest when the loads have settled, the error message is
\* shown, the handlers are never wired and the state stays IDLE.
C10_AllLoadsFailRejects ==
    init.fails = Cells =>
        /\ init.phase \in {"setupSheet", "loading", "rejected"}
        /\ init.phase = "rejected" => main.errorShown
        /\ ~init.wired
        /\ state = SheetState.IDLE

\* All 36 loads failed, init() was rejected, and a resize has been handled
\* since (the only events left).
C10_Witness ==
    /\ init.fails = Cells /\ init.sheetOk
    /\ init.phase = "rejected" /\ init.errorCount = 36
    /\ main.errorShown
    /\ viewport # InitialViewport /\ ~main.resizeTimeout

\* Once the loads have settled with at least one success, init() has resolved
\* and, until dispose() is called, every cell has its mesh: a placeholder
\* where the load failed.
PlaceholdersInPlace ==
    ( init.phase \in {"ready", "rejected"} /\ init.successCount > 0 /\ env.unloads = 0 ) =>
        /\ init.phase = "ready" /\ init.wired
        /\ \A c \in Cells :
              meshes[c] = IF c \in init.fails THEN "placeholder" ELSE "image"

\* A zoom-in or move position tween of the step's pre-state ends in this tick.
CommitCompletes(i) ==
    /\ i \in 1 .. Len(posTweens)
    /\ posTweens[i].kind \in {"zoomIn", "move"}
    /\ posTweens[i].el + 1 >= posTweens[i].dur
    /\ Tick

\* What handleTap does with a tap on cell c, as it does for a loaded cell: in
\* IDLE the zoom-in to c, in ZOOMED_IN a move to c when c is not the focused
\* cell and no camera move when it is; currentImage is left for the completion.
TapNavigates(c) ==
    /\ state = SheetState.IDLE =>
          /\ state' = SheetState.ANIMATING
          /\ currentImage' = currentImage
          /\ Last(posTweens').kind = "zoomIn"
          /\ Last(posTweens').cell = c
    /\ ( state = SheetState.ZOOMED_IN /\ c # currentImage ) =>
          /\ state' = SheetState.ANIMATING
          /\ currentImage' = currentImage
          /\ Last(posTweens').kind = "move"
          /\ Last(posTweens').cell = c
    /\ ( state = SheetState.ZOOMED_IN /\ c = currentImage ) =>
          /\ state' = state /\ currentImage' = currentImage
          /\ posTweens' = posTweens

IsPlaceholder(c) == c \in Cells /\ meshes[c] = "placeholder"

\* C11: with one load failed and the others successful init() resolves and the
\* failed cell has a placeholder mesh (meshes and init are looked at in the
\* steps that change them); a tap on a placeholder cell, and a tap on any cell
\* while a placeholder cell is focused, does what it does for loaded cells; a
\* drag released on or toward a placeholder cell moves to the cell handlePanEnd
\* computes; and the completion of the transition commits that cell.
C11_PlaceholderNavigable ==
    [][ /\ UNCHANGED << init, meshes >> \/ PlaceholdersInPlace'
        /\ \A c \in init.fails :
              Tap(CellCentrePixel(c.row, c.col)) => TapNavigates(c)
        /\ IsPlaceholder(currentImage) =>
              \A uv \in PointerHits :
                 ( Tap(uv) /\ getImageAtPointer(uv) # NoCell )
                     => TapNavigates(getImageAtPointer(uv))
        /\ ( /\ PanEndCommits
             /\ IsPlaceholder(currentImage) \/ IsPlaceholder(PanEndTarget(drag, currentImage))
           ) =>
              /\ state' = SheetState.ANIMATING
              /\ Last(posTweens').cell = PanEndTarget(drag, currentImage)
        /\ \A i \in 1 .. Len(posTweens) :
              CommitCompletes(i) => currentImage' = posTweens[i].cell
      ]_vars

\* The placeholder cell (0,1) is focused, reached by a drag to the left from
\* the loaded cell (0,0), and a tap on the loaded cell (0,2) has started a
\* move away.
C11_Witness ==
    /\ init.phase = "ready" /\ init.successCount = 35
    /\ meshes[[row |-> 0, col |-> 1]] = "placeholder"
    /\ currentImage = [row |-> 0, col |-> 1]
    /\ env.pans = 1
    /\ state = SheetState.ANIMATING
    /\ posTweens # << >>
    /\ Last(posTweens).kind = "move"
    /\ Last(posTweens).cell = [row |-> 0, col |-> 2]

C13_NearestOfCentreIsCell ==
    \A c \in Cells :
        camPos = getImagePosition(c.row, c.col) => currentImage = c

\* The centre of the last cell of the scan was asked about.
C13_Witness ==
    /\ camPos = getImagePosition(rows - 1, columns - 1)
    /\ currentImage = [row |-> rows - 1, col |-> columns - 1]

\* The move position tween of the step's pre-state ends in this gsap tick.
MoveCompletes(i) ==
    /\ i \in 1 .. Len(posTweens)
    /\ posTweens[i].kind = "move"
    /\ posTweens[i].el + 1 >= posTweens[i].dur
    /\ Tick

\* The position tweens are a single move to cell c.
MovingTo(tws, c) ==
    /\ Len(tws) = 1
    /\ tws[1].kind = "move"
    /\ tws[1].cell = c
    /\ tws[1].tx = getImagePosition(c.row, c.col).x
    /\ tws[1].ty = getImagePosition(c.row, c.col).y

ShowTweenFrom(tws, f) ==
    /\ tws # << >>
    /\ Last(tws).kind = "detailShow"
    /\ Last(tws).from = f
    /\ Last(tws).to = FrDivide(f, zoomFactorX100(viewport))

PinchOutIgnored(s0) ==
    \E s \in PinchOutScales :
       /\ s * 10 > PinchOutRatioX10 * s0
       /\ ENABLED ( PinchOut(s) /\ ~dv'.isVisible )
PinchInIgnored(s0) ==
    \E s \in PinchInScales :
       /\ s * 10 < PinchInRatioX10 * s0
       /\ ENABLED ( PinchIn(s) /\ state' # SheetState.ANIMATING )
\* A pinch event within the thresholds that takes effect all the same.
PinchActsEarly(s0) ==
    \/ \E s \in PinchOutScales :
          /\ s * 10 <= PinchOutRatioX10 * s0
          /\ ENABLED ( PinchOut(s) /\ dv'.isVisible )
    \/ \E s \in PinchInScales :
          /\ s * 10 >= PinchInRatioX10 * s0
          /\ ENABLED ( PinchIn(s) /\ state' = SheetState.ANIMATING )

\* C16 as stated: in ZOOMED_IN, once a pinch has started (any drag cancelled),
\* a pinch-out past 1.3 times the start scale opens the detail overlay and a
\* pinch-in below 0.7 times the start scale starts the zoom-out, wherever the
\* pinch is on the canvas.
C16_PinchActsAnywhere ==
    [][ \A uv \in PointerHits : \A s0 \in PinchStartScales :
           ( state = SheetState.ZOOMED_IN /\ PinchStart(uv, s0) ) =>
               /\ ~drag'.isDragging
               /\ ~PinchOutIgnored(s0)'
               /\ ~PinchInIgnored(s0)'
      ]_vars

\* The zoom-out has been started from camera position p and frustum f.
ZoomOutStarted(p, f) ==
    /\ state' = SheetState.ANIMATING
    /\ posTweens' # << >> /\ Last(posTweens').kind = "zoomOut"
    /\ Last(posTweens').fx = p.x /\ Last(posTweens').fy = p.y
    /\ Last(posTweens').tx = 0 /\ Last(posTweens').ty = 0
    /\ frTweens' # << >> /\ Last(frTweens').kind = "zoomOut"
    /\ Last(frTweens').from = f
    /\ Last(frTweens').to = OverviewFrustum(viewport)

\* C16, amended: in ZOOMED_IN, a pinch that starts with its centre over the
\* focused cell opens the detail overlay when its scale rises above 1.3 times
\* the scale at pinch-start, and starts the zoom-out (ANIMATING, then IDLE when
\* the zoom-out has completed) when it falls below 0.7 times that scale, and
\* does neither within these thresholds; a pinch that starts elsewhere does
\* nothing.  In every case the drag session in progress is cancelled at
\* pinch-start, and none is in progress once the pinch has taken effect.
C16_PinchOverFocusedCellActs ==
    [][ /\ state = SheetState.ZOOMED_IN =>
              \A uv \in PointerHits : \A s0 \in PinchStartScales :
                 PinchStart(uv, s0) =>
                     /\ ~drag'.isDragging
                     /\ UNCHANGED << state, currentImage, dv, cam >>
                     /\ IF getImageAtPointer(uv) = currentImage
                        THEN /\ ~PinchOutIgnored(s0)'
                             /\ ~PinchInIgnored(s0)'
                             /\ ~PinchActsEarly(s0)'
                        ELSE /\ \A s \in PinchOutScales :
                                   ~( ENABLED ( PinchOut(s) /\ dv'.isVisible ) )'
                             /\ \A s \in PinchInScales :
                                   ~( ENABLED ( PinchIn(s) /\ state' # state ) )'
        /\ \A s \in PinchOutScales :
              ( PinchOut(s) /\ dv'.isVisible /\ ~dv.isVisible ) =>
                  /\ state = SheetState.ZOOMED_IN
                  /\ ~drag'.isDragging
                  /\ ShowTweenFrom(frTweens', cam)
                  /\ UNCHANGED << state, currentImage, camPos >>
        /\ \A s \in PinchInScales :
              ( PinchIn(s) /\ state' # state ) =>
                  /\ state = SheetState.ZOOMED_IN
                  /\ ~drag'.isDragging
                  /\ ZoomOutStarted(camPos, cam)
        /\ ZoomOutCompletes =>
              \E i \in 1 .. Len(timers') : timers'[i].kind = "toIdle"
        /\ \A i \in 1 .. Len(timers) :
              ( timers[i].kind = "toIdle" /\ TimerFire(i) ) => state' = SheetState.IDLE
      ]_vars

\* A drag had moved the camera off cell (0,0) when the second finger landed and
\* cancelled it; the pinch over the cell then passed 1.3 times its start scale
\* and the overlay is open, the 0.1 s snap back to the cell still running.
C16_Witness ==
    /\ env.pinch /\ env.pans = 1
    /\ state = SheetState.ZOOMED_IN
    /\ currentImage = [row |-> 0, col |-> 0]
    /\ dv.isVisible
    /\ ~drag.isDragging /\ ~pinch.isPinching
    /\ Len(posTweens) = 1 /\ posTweens[1].kind = "snap"
    /\ Len(frTweens) = 1 /\ frTweens[1].kind = "detailShow" /\ frTweens[1].el = 0

\* The controller handles a resize in this step: its own 'resize' listener, or
\* main.js's throttled call of contactSheet.handleResize.
ResizeHandled ==
    /\ init.wired
    /\ \/ \E vp \in Viewports : Resize(vp)
       \/ \E i \in 1 .. Len(timers) : timers[i].kind = "resize" /\ TimerFire(i)

\* C17: a resize handled while ZOOMED_IN leaves the camera on the focused
\* frustum of the viewport it reports, computed with the zoom fraction of the
\* zoom-in transition (SheetAnimation.calculateZoomFrustum); so a resize that
\* reports the dimensions of the zoom-in leaves its frustum unchanged.
C17_ResizeKeepsZoomFraction ==
    [][ ( state = SheetState.ZOOMED_IN /\ ResizeHandled ) =>
            cam' = AnimationCalculateZoomFrustum(viewport')
      ]_vars

\* Frustum f has the width / height ratio of viewport vp.
AspectMatches(f, vp) ==
    /\ (f.right - f.left) * vp.h = (f.top - f.bottom) * vp.w
    /\ f.left = -f.right /\ f.bottom = -f.top

\* C18: in IDLE and in ZOOMED_IN, with no frustum tween in flight (and every
\* resize handled), the camera frustum has the width / height ratio of the
\* current viewport, whatever resizes, transitions and overlay openings and
\* closings came before.
C18_FrustumAspectMatchesViewport ==
    ( /\ state \in {SheetState.IDLE, SheetState.ZOOMED_IN}
      /\ init.wired /\ ~main.resizeTimeout
      /\ frTweens = << >> )
        => AspectMatches(cam, viewport)

\* The view of a camera at position p (half sheet pixels) with frustum f
\* contains the sheet rectangle, sheetWidth * scale by sheetHeight * scale
\* around the origin, scale = 3.5 / sheetWidth: in scene units,
\* f.right / FrUnit - |p.x| * scale / 2 >= sheetWidth * scale / 2, and so on.
SheetInView(f, p) ==
    /\ 4 * sheetWidth * f.right >= 7 * FrUnit * (sheetWidth + Abs(p.x))
    /\ 4 * sheetWidth * (-f.left) >= 7 * FrUnit * (sheetWidth + Abs(p.x))
    /\ 4 * sheetWidth * f.top >= 7 * FrUnit * (sheetHeight + Abs(p.y))
    /\ 4 * sheetWidth * (-f.bottom) >= 7 * FrUnit * (sheetHeight + Abs(p.y))

\* Window sizes from wide landscape to tall portrait, the square among them.
AspectSamples ==
    { [w |-> 2560, h |-> 1080], [w |-> 1800, h |-> 900], [w |-> 1024, h |-> 768],
      [w |-> 1000, h |-> 1000], [w |-> 768, h |-> 1024], [w |-> 900, h |-> 1800],
      [w |-> 375, h |-> 812] }

\* C19: in IDLE, every resize handled, the camera's view contains the whole
\* sheet rectangle; the overview frustum handleResize computes contains it
\* for landscape, square and portrait windows alike.
C19_OverviewShowsWholeSheet ==
    /\ ( state = SheetState.IDLE /\ ~main.resizeTimeout ) => SheetInView(cam, camPos)
    /\ \A vp \in AspectSamples :
           SheetInView(handleResize(vp, SheetState.IDLE).cam, [x |-> 0, y |-> 0])

\* IDLE in a window resized to portrait, the resize handled and nothing
\* pending: the camera is on the portrait overview frustum.
C19_Witness ==
    /\ state = SheetState.IDLE
    /\ init.wired /\ ~main.resizeTimeout
    /\ env.resizes = 1
    /\ viewport = [w |-> 900, h |-> 1800]
    /\ cam = OverviewFrustum(viewport)
    /\ posTweens = << >> /\ frTweens = << >> /\ timers = << >>

\* A position tween of the step's pre-state ends in this gsap tick, so its
\* completion callback (if it has one) runs.
PositionTweenCompletes ==
    \E i \in 1 .. Len(posTweens) : posTweens[i].el + 1 >= posTweens[i].dur
\* The pending timeouts whose callback writes state.
IsStateTimer(t) == t.kind \in {"toZoomed", "toIdle"}
StateTimers(ts) == Len(SelectSeq(ts, IsStateTimer))

\* C20: in a zoom-in or a zoom-out, state and currentImage are committed from
\* the position tween's completion only: a gsap tick in which no position
\* tween completes (a frustum tween may) neither writes state or currentImage
\* nor schedules a write of them.
C20_CommitOnlyFromPositionTween ==
    [][ ( Tick /\ ~PositionTweenCompletes ) =>
            /\ UNCHANGED << state, currentImage >>
            /\ StateTimers(timers') <= StateTimers(timers)
      ]_vars

\* C21: at every moment at most one tween is running on the camera position
\* and at most one on the camera frustum.
C21_OneTweenPerTarget ==
    /\ Len(posTweens) <= 1
    /\ Len(frTweens) <= 1

\* A camera animation completes in this gsap tick: a zoom-in or a move (their
\* position tween ends) or a zoom-out (its frustum tween ends).
AnimationCompletes ==
    \/ \E i \in 1 .. Len(posTweens) : ZoomInCompletes(i) \/ MoveCompletes(i)
    \/ ZoomOutCompletes

\* C22: when a camera animation (zoom-in, move, zoom-out) completes, state
\* stays ANIMATING, with the timeout of the cooldown pending, and becomes
\* ZOOMED_IN or IDLE only when that timeout fires; a tap during the cooldown is
\* dropped.
C22_CooldownAfterEveryAnimation ==
    [][ /\ AnimationCompletes =>
              /\ state' = SheetState.ANIMATING
              /\ StateTimers(timers') > 0
        /\ ( state = SheetState.ANIMATING /\ StateTimers(timers) > 0 ) =>
              \A uv \in PointerHits :
                 Tap(uv) => UNCHANGED << state, currentImage, posTweens, frTweens, dv >>
      ]_vars

\* C23: ANIMATING is transient.  With every tween that is not killed completing
\* and every timer firing, each state in which state is ANIMATING is followed
\* by one in which it is ZOOMED_IN or IDLE, whatever gestures, multi-touch
\* events and resizes come in between (the page not being unloaded).
C23_AnimatingIsTransient ==
    ( state = SheetState.ANIMATING /\ env.unloads = 0 )
        ~> ( state # SheetState.ANIMATING \/ env.unloads > 0 )

\* Two fingers are down and the window has been resized while the position
\* tween of a zoom-in, which will commit, is half-way.
C23_Witness ==
    /\ state = SheetState.ANIMATING
    /\ env.fingers = 2 /\ touch.multi
    /\ env.resizes = 1 /\ env.unloads = 0
    /\ Len(posTweens) = 1
    /\ posTweens[1].kind = "zoomIn"
    /\ posTweens[1].el > 0

\* A second touch point is detected in this step: by touchstart, by touchmove,
\* by a Safari gesture event or by pinch-start.
SecondTouchDetected ==
    \/ TouchStart /\ env'.fingers > 1
    \/ TouchMove /\ env.fingers > 1
    \/ GestureChange
    \/ \E uv \in PointerHits, scale \in PinchStartScales : PinchStart(uv, scale)

\* After the step the camera rests on cell c or a tween is taking it there.
CameraReturnsTo(c) ==
    IF posTweens' = << >>
    THEN camPos' = getImagePosition(c.row, c.col)
    ELSE /\ Last(posTweens').tx = getImagePosition(c.row, c.col).x
         /\ Last(posTweens').ty = getImagePosition(c.row, c.col).y

\* C24: when a second touch point is detected during a drag in ZOOMED_IN, the
\* drag session is cancelled and the camera is animated back to the position
\* of currentImage; currentImage and state are unchanged.
C24_SecondTouchSnapsBack ==
    [][ ( state = SheetState.ZOOMED_IN /\ drag.isDragging /\ SecondTouchDetected ) =>
            /\ ~drag'.isDragging
            /\ UNCHANGED << state, currentImage >>
            /\ CameraReturnsTo(currentImage)
      ]_vars

\* C25: in ZOOMED_IN, with no drag session active (no pan in progress) and no
\* position tween in flight, the camera is at the position of currentImage:
\* no pan session leaves a residual displacement, however it ends.
C25_CameraCentredWhenZoomedIn ==
    ( /\ state = SheetState.ZOOMED_IN
      /\ ~drag.isDragging /\ ~env.pan
      /\ posTweens = << >>
      /\ env.unloads = 0 )
        => camPos = getImagePosition(currentImage.row, currentImage.col)

\* The drag in progress has moved past the 5 px click threshold, and on its
\* locked axis its net displacement is at most 50 px and its last velocity at
\* most 0.3 px/ms.
SlowShortDrag ==
    /\ drag.isDragging /\ drag.moved
    /\ IF drag.dir = "horizontal"
       THEN Abs(drag.dx) <= SWIPE_DISTANCE_THRESHOLD /\ ~FastEnough(drag.vx, drag.vdt)
       ELSE Abs(drag.dy) <= SWIPE_DISTANCE_THRESHOLD /\ ~FastEnough(drag.vy, drag.vdt)

\* C26: releasing such a drag in ZOOMED_IN snaps back: the state becomes
\* ANIMATING with a tween to the position of the current cell, currentImage
\* is unchanged then and when the tween completes, and the state returns to
\* ZOOMED_IN with the camera on the cell.
C26_SlowShortDragSnapsBack ==
    [][ /\ ( state = SheetState.ZOOMED_IN /\ SlowShortDrag /\ PanEnd ) =>
              /\ state' = SheetState.ANIMATING
              /\ currentImage' = currentImage
              /\ ~drag'.isDragging
              /\ MovingTo(posTweens', currentImage)
        /\ \A i \in 1 .. Len(posTweens) :
              ( MoveCompletes(i) /\ posTweens[i].cell = currentImage /\ Len(posTweens) = 1 ) =>
                  /\ currentImage' = currentImage
                  /\ camPos' = getImagePosition(currentImage.row, currentImage.col)
                  /\ StateTimers(timers') > 0
      ]_vars

\* handlePanEnd starts the tween of a drag commit in this step.
PanEndMoves == PanEnd /\ posTweens' # posTweens

\* C27: a drag commit targets a cell at most one cell from currentImage along
\* the locked swipe axis (column for horizontal, row for vertical) and with
\* the other coordinate unchanged, whatever the displacement and velocity on
\* the other axis; that cell is what the completing tween writes to
\* currentImage.
C27_CommitOneCellOnLockedAxis ==
    [][ /\ PanEndMoves =>
              LET target == Last(posTweens').cell
              IN  /\ MovingTo(posTweens', target)
                  /\ IF drag.dir = "horizontal"
                     THEN /\ target.row = currentImage.row
                          /\ Abs(target.col - currentImage.col) <= 1
                     ELSE /\ target.col = currentImage.col
                          /\ Abs(target.row - currentImage.row) <= 1
        /\ \A i \in 1 .. Len(posTweens) :
              ( MoveCompletes(i) /\ i = Len(posTweens) ) => currentImage' = posTweens[i].cell
      ]_vars

\* A drag locked on the horizontal axis was released on cell (0,0) with the
\* camera displaced along x only: the tween the release started takes the
\* camera to a cell of row 0, here back to (0,0).
C27_Witness ==
    /\ state = SheetState.ANIMATING
    /\ currentImage = [row |-> 0, col |-> 0]
    /\ env.pans = 1 /\ ~env.pan /\ ~drag.isDragging
    /\ MovingTo(posTweens, currentImage)
    /\ posTweens[1].el = 0
    /\ posTweens[1].fx # posTweens[1].tx
    /\ posTweens[1].fy = posTweens[1].ty

\* C28: within a drag session the swipe axis is decided by the first pan-move
\* and is the same for as long as the session lasts (until it is cancelled or
\* the next pan-start); every pan-move displaces the camera along that axis
\* only and leaves its other coordinate unchanged.
C28_SwipeAxisDecidedOnce ==
    [][ /\ \A step \in PanSteps :
              PanMove(step) =>
                  /\ ( drag'.isDragging /\ drag'.n > 0 ) => drag'.dir # "none"
                  /\ ( drag.dir # "none" /\ drag'.isDragging ) => drag'.dir = drag.dir
                  /\ CASE drag'.isDragging /\ drag'.dir = "horizontal" -> camPos'.y = camPos.y
                       [] drag'.isDragging /\ drag'.dir = "vertical" -> camPos'.x = camPos.x
                       [] OTHER -> camPos' = camPos
        /\ ( drag.isDragging /\ drag'.isDragging /\ env.pan /\ env'.pan /\ drag.dir # "none" ) =>
              drag'.dir = drag.dir
      ]_vars

\* A drag locked on the horizontal axis by its first move has then moved 80 px
\* along the other axis: the camera has left the cell's position along x only.
C28_Witness ==
    /\ state = SheetState.ZOOMED_IN
    /\ drag.isDragging /\ env.pan
    /\ drag.n = 2
    /\ drag.dir = "horizontal"
    /\ Abs(drag.dy) = 80
    /\ camPos.y = getImagePosition(currentImage.row, currentImage.col).y
    /\ camPos.x # getImagePosition(currentImage.row, currentImage.col).x

\* C29: a drag session exists only while state is ZOOMED_IN: isDragging
\* implies state = ZOOMED_IN, so no session outlives the transition that
\* leaves ZOOMED_IN.
C29_DragOnlyWhenZoomedIn ==
    drag.isDragging => state = SheetState.ZOOMED_IN

\* The release of a drag session that is evaluated by handlePanEnd: one
\* pointer, in ZOOMED_IN, outside a pinch.
ReleaseOfDrag ==
    /\ PanEnd
    /\ state = SheetState.ZOOMED_IN /\ drag.isDragging
    /\ ~(touch.count > 1 \/ touch.multi) /\ ~pinch.isPinching

\* The step does to the controller what a tap on some image cell does.
ActsAsTapOnCell ==
    \E image \in Cells : handleTap(image)

\* C30: a gesture in ZOOMED_IN that never moves more than 5 px from its start
\* on either axis is treated as a tap on the cell under the pointer and not
\* as a drag (no swipe-commit evaluation); only movement strictly greater
\* than 5 px on some axis makes the release a drag.
C30_SubThresholdReleaseIsTap ==
    [][ /\ \A step \in PanSteps :
              ( PanMove(step) /\ drag'.moved /\ ~drag.moved ) =>
                  ( Abs(drag'.dx) > 5 \/ Abs(drag'.dy) > 5 )
        /\ ( ReleaseOfDrag /\ drag.moved ) => posTweens' # posTweens
        /\ ( ReleaseOfDrag /\ ~drag.moved ) =>
              /\ Abs(drag.dx) <= 5 /\ Abs(drag.dy) <= 5
              /\ ActsAsTapOnCell
      ]_vars

\* A zoom-out is under way: one of its tweens is live or its cooldown pending.
ZoomOutUnderWay ==
    \/ \E i \in 1 .. Len(posTweens) : posTweens[i].kind = "zoomOut"
    \/ \E i \in 1 .. Len(frTweens) : frTweens[i].kind = "zoomOut"
    \/ \E i \in 1 .. Len(timers) : timers[i].kind = "toIdle"

\* C31: currentImage changes only in the completion callback of a zoom-in or
\* move tween, to the cell of that tween; a resize, opening or closing the
\* detail overlay, a pinch-out, a pan-move, a cancelled or sub-threshold drag
\* and every step of a zoom-out leave it unchanged.
C31_CurrentImageOnlyAtCompletion ==
    [][ /\ currentImage' # currentImage =>
              \E i \in 1 .. Len(posTweens) :
                  CommitCompletes(i) /\ currentImage' = posTweens[i].cell
        /\ ( \/ \E vp \in Viewports : Resize(vp)
             \/ DetailHide
             \/ dv'.isVisible # dv.isVisible
             \/ \E scale \in PinchOutScales : PinchOut(scale)
             \/ \E step \in PanSteps : PanMove(step)
             \/ TouchCancel
             \/ PanEnd /\ ~drag.moved
             \/ ZoomOutUnderWay ) => currentImage' = currentImage
      ]_vars

\* A cell other than the initial one has been committed and the controller has
\* zoomed out again, after a resize.
C31_Witness ==
    /\ state = SheetState.IDLE
    /\ currentImage = [row |-> 0, col |-> 1]
    /\ env.resizes = 1
    /\ posTweens = << >> /\ frTweens = << >> /\ timers = << >>

\* C32: in ZOOMED_IN the last brightness target issued is full (1.0) for the
\* cell currentImage and dimmed (0.1) for every other cell; in IDLE it is full
\* for every cell.
C32_BrightnessFollowsFocus ==
    ( init.phase = "ready" /\ env.unloads = 0 ) =>
        /\ state = SheetState.ZOOMED_IN =>
              \A c \in Cells : bright[c] = IF c = currentImage THEN 10 ELSE 1
        /\ state = SheetState.IDLE =>
              \A c \in Cells : bright[c] = 10

\* The controller has moved on to a cell whose image failed to load: its
\* placeholder is at full brightness and the cell left behind is dimmed.
C32_Witness ==
    /\ state = SheetState.ZOOMED_IN
    /\ currentImage = [row |-> 0, col |-> 1]
    /\ meshes[currentImage] = "placeholder"
    /\ bright[currentImage] = 10
    /\ bright[[row |-> 0, col |-> 0]] = 1
    /\ env.unloads = 0

\* ------------------------------------------------- brightness update raising
\* moveToImage when setImageBrightness raises: the position tweens have been
\* killed and state set to ANIMATING, and the statement creating the tween is
\* not reached.
moveToImageBrightnessThrows(targetImage) ==
    /\ posTweens' = << >>
    /\ state' = SheetState.ANIMATING
    /\ bright' = bright
    /\ currentImage' = currentImage

\* handleTap -> handleImageTap -> moveToImage, the brightness update raising.
TapBrightnessThrows(uv) ==
    /\ TapDeliverable(uv)
    /\ state = SheetState.ZOOMED_IN
    /\ getImageAtPointer(uv) # NoCell
    /\ getImageAtPointer(uv) # currentImage
    /\ moveToImageBrightnessThrows(getImageAtPointer(uv))
    /\ UNCHANGED << viewport, cam, camPos, originalFrustum, drag, touch, pinch,
                    frTweens, timers, meshes, init, dv, main, env >>

\* handlePanEnd committing a move, the brightness update raising.
PanEndBrightnessThrows ==
    /\ init.wired /\ env.pan
    /\ ~(touch.count > 1 \/ touch.multi)
    /\ drag.isDragging /\ state = SheetState.ZOOMED_IN /\ ~pinch.isPinching
    /\ drag.moved
    /\ env' = [env EXCEPT !.pan = FALSE]
    /\ drag' = StopDrag
    /\ moveToImageBrightnessThrows(PanEndTarget(drag, currentImage))
    /\ UNCHANGED << viewport, cam, camPos, originalFrustum, touch, pinch,
                    frTweens, timers, meshes, init, dv, main >>

\* handlePinchIn -> zoomOut, resetImageBrightness raising inside
\* SheetAnimation.zoomOut: no tween has been created yet and the controller's
\* this.state = ANIMATING, which follows the call, is not reached.
PinchInBrightnessThrows(scale) ==
    /\ init.wired /\ env.pinch
    /\ pinch.isPinching /\ state = SheetState.ZOOMED_IN
    /\ scale * 10 < PinchInRatioX10 * pinch.scale0
    /\ pinch' = NoPinch
    /\ drag' = StopDrag
    /\ UNCHANGED << viewport, cam, camPos, originalFrustum, state, currentImage, touch,
                    posTweens, frTweens, timers, bright, meshes, init, dv, main, env >>

FaultyNext ==
    \/ Next
    \/ \E uv \in PointerHits : TapBrightnessThrows(uv)
    \/ PanEndBrightnessThrows
    \/ \E scale \in PinchInScales : PinchInBrightnessThrows(scale)

\* The controller with a brightness update that can raise.
SpecFaulty == Init /\ [][FaultyNext]_vars

LoadSheetIds == {"sheet_one", "sheet_two"}
LoadFailChoices == FailChoices \cup { {} }

InitAnySheet ==
    /\ viewport = InitialViewport
    /\ cam = OverviewFrustum(InitialViewport)
    /\ camPos = [x |-> 0, y |-> 0]
    /\ originalFrustum = OverviewFrustum(InitialViewport)
    /\ state = SheetState.IDLE
    /\ currentImage = [row |-> 0, col |-> 0]
    /\ drag = NoDrag
    /\ touch = [count |-> 0, multi |-> FALSE]
    /\ pinch = NoPinch
    /\ posTweens = << >>
    /\ frTweens = << >>
    /\ timers = << >>
    /\ bright = [c \in Cells |-> 0]
    /\ meshes = [c \in Cells |-> "none"]
    /\ \E sid \in LoadSheetIds, fails \in LoadFailChoices, sheetOk \in BOOLEAN :
          init = [phase |-> "setupSheet", sheetId |-> sid, fails |-> fails,
                  sheetOk |-> sheetOk, files |-> 0, settled |-> 0,
                  successCount |-> 0, errorCount |-> 0, wired |-> FALSE,
                  sheet |-> FALSE, listeners |-> {}]
    /\ dv = [isVisible |-> FALSE, pointerEvents |-> FALSE, originalSettings |-> NoFrustum,
             listeners |-> DetailViewListeners, attached |-> TRUE]
    /\ main = [resizeTimeout |-> FALSE, errorShown |-> FALSE, listening |-> TRUE]
    /\ env = [fingers |-> 0, pan |-> FALSE, pinch |-> FALSE, pans |-> 0, resizes |-> 0,
             gate |-> "clear", unloads |-> 0]

\* init(): setupSheet, the cell loads of createImagesFromSheet, and its end.
InitNext ==
    \/ SetupSheetSettles
    \/ ImageLoadSettles
    \/ InitCompletes

SpecInit == InitAnySheet /\ [][InitNext]_vars

\* C34: init() resolves only if at least one cell image loaded: with no
\* successful cell load (every load failed, or the file list gave no cell to
\* load) it rejects.
C34_ResolvesOnlyWithALoadedCell ==
    /\ init.phase = "ready" => init.successCount > 0
    /\ ~ENABLED InitNext => ( init.successCount = 0 => init.phase = "rejected" )

\* ------------------------------------------- createImagesFromSheet's loops
\* The two nested loops of createImagesFromSheet from (row, col) on, with
\* imageIndex files already placed out of n: the inner loop breaks when the
\* files have run out, the outer loop goes on to the next row.  mapping is
\* imageMapping, the number of the file per cell.
RECURSIVE FillColumnMajorFrom(_, _, _, _, _)
FillColumnMajorFrom(row, col, imageIndex, n, mapping) ==
    IF col >= columns THEN mapping
    ELSE IF row >= rows \/ imageIndex >= n
    THEN FillColumnMajorFrom(0, col + 1, imageIndex, n, mapping)
    ELSE FillColumnMajorFrom(row + 1, col, imageIndex + 1, n,
                             mapping @@ ([row |-> row, col |-> col] :> imageIndex))

RECURSIVE FillFrom(_, _, _, _, _)
FillFrom(row, col, imageIndex, n, mapping) ==
    IF row >= rows THEN mapping
    ELSE IF col >= columns \/ imageIndex >= n
    THEN FillFrom(row + 1, 0, imageIndex, n, mapping)
    ELSE FillFrom(row, col + 1, imageIndex + 1, n,
                  mapping @@ ([row |-> row, col |-> col] :> imageIndex))

\* The loops run with the column loop outside.
imageMappingColumnMajor(n) == FillColumnMajorFrom(0, 0, 0, n, << >>)

\* this.imageMapping after the loops, for a list of n files.
imageMapping(n) == FillFrom(0, 0, 0, n, << >>)

\* The lengths of the file lists a sheet of rows x columns cells holds.
FileCounts == 0 .. rows * columns

\* C35: cells get their files in row-major order: for a list of n files, cell
\* (r, c) is mapped to file r * columns + c when that number is below n and is
\* not mapped (nor loaded) otherwise, and each file goes to exactly one cell;
\* the meshes in the scene are those of the mapped cells whose load has settled.
C35_RowMajorAssignment ==
    /\ \A n \in FileCounts :
          LET m == imageMapping(n)
          IN  /\ \A cell \in Cells :
                    IF cell.row * columns + cell.col < n
                    THEN cell \in DOMAIN m /\ m[cell] = cell.row * columns + cell.col
                    ELSE cell \notin DOMAIN m
              /\ \A i \in 0 .. n - 1 :
                    Cardinality({ cell \in DOMAIN m : m[cell] = i }) = 1
    /\ LET m == imageMapping(init.files)
       IN  \A cell \in Cells :
               meshes[cell] # "none" <=>
                   ( cell \in DOMAIN m /\ m[cell] < init.settled )

\* init() has resolved for the sheet of 36 files: the last cell has its image
\* and the cell of the failed load its placeholder.
C35_Witness ==
    /\ init.phase = "ready" /\ init.files = rows * columns
    /\ meshes[[row |-> rows - 1, col |-> columns - 1]] = "image"
    /\ meshes[[row |-> 0, col |-> 1]] = "placeholder"

\* The share of the view's height the image of a cell takes under frustum f,
\* in thousandths: imageHeight * scale over the frustum's height.
ImageSharePerMille(f) == (imageHeight * 1000) \div HalfPx(f.top)

\* The step creates the frustum tween of a zoom-in.
StartsZoomIn ==
    /\ Len(frTweens') = Len(frTweens) + 1
    /\ Last(frTweens').kind = "zoomIn"

\* C36: whatever the viewport, the frustum a zoom-in targets gives the focused
\* image the same share of the viewport's height, and has the viewport's
\* width / height ratio.
C36_FocusedImageShareFixed ==
    [][ StartsZoomIn =>
            /\ AspectMatches(Last(frTweens').to, viewport)
            /\ ImageSharePerMille(Last(frTweens').to) =
                   ImageSharePerMille(AnimationCalculateZoomFrustum(InitialViewport))
      ]_vars

\* ------------------------------------------------------- init() called again
\* init() called a second time on the controller once the first has resolved,
\* run to its end (the loader answers as before): the sheet and the cell
\* meshes are rebuilt, the brightness is reset, setupGestureManager overwrites
\* the fields holding the first gesture manager and the first touch and
\* gesture handlers, which stay registered, and the cursor and resize
\* listeners are registered once more, on the eventListeners array.
InitAgain ==
    /\ init.phase = "ready"
    /\ init.listeners = ControllerListeners
    /\ init' = [init EXCEPT !.listeners =
                    ControllerListeners \cup { FirstInit(l) : l \in FieldHeldListeners }]
    /\ bright' = resetImageBrightness(bright, meshes)
    /\ UNCHANGED << viewport, cam, camPos, originalFrustum, state, currentImage, drag,
                    touch, pinch, posTweens, frTweens, timers, meshes, dv, main, env >>

\* init(), possibly a second init(), and dispose().
ReinitNext ==
    \/ SetupSheetSettles
    \/ ImageLoadSettles
    \/ InitCompletes
    \/ InitAgain
    \/ BeforeUnload

SpecReinit == InitAnySheet /\ [][ReinitNext]_vars

\* C37: after dispose() no listener registered by the controller or its
\* gesture manager on the canvas or the window is still registered, after one
\* init() and after more than one.
C37_NoListenerAfterDispose ==
    env.unloads > 0 => init.listeners = {}

\* A pinch event triggers one of the two pinch actions: the detail overlay
\* (handlePinchOut -> showDetailView) or the zoom-out (handlePinchIn -> zoomOut).
DetailOpenedByPinch ==
    \E scale \in PinchOutScales : PinchOut(scale) /\ frTweens' # frTweens
ZoomOutByPinch ==
    \E scale \in PinchInScales : PinchIn(scale) /\ posTweens' # posTweens

\* C38: within one pinch session (pinch-start to pinch-end) at most one of the
\* two pinch actions is triggered, at most once: an action is triggered only
\* by an armed session (isPinching) and disarms it, and nothing arms it again
\* before the session ends; a pinch that does not start over the focused cell
\* is not armed, so it triggers neither.
C38_OnePinchActionPerSession ==
    [][ /\ ( DetailOpenedByPinch \/ ZoomOutByPinch ) =>
              pinch.isPinching /\ ~pinch'.isPinching
        /\ ( env.pinch /\ env'.pinch /\ ~pinch.isPinching ) => ~pinch'.isPinching
        /\ \A uv \in PointerHits, scale \in PinchStartScales :
              ( /\ PinchStart(uv, scale)
                /\ ~( state = SheetState.ZOOMED_IN /\ getImageAtPointer(uv) = currentImage ) ) =>
                  ~pinch'.isPinching
      ]_vars

\* ------------------------------------------- the overlay while it animates
\* DetailView.show sets the overlay's container to scale(startScale) and tweens
\* it to scale(1) along with the camera; hide tweens it back to endScale.  The
\* container is the full window scaled about its centre, so while it is
\* scaled down the rim of the canvas is not under it.
DetailStartScaleDesktopX100 == 60
DetailStartScaleMobileX100 == 50

\* A short window: the focused image is taller than the window.
SmallViewport == [w |-> 1350, h |-> 450]

\* A pixel of the image of cell (0,0), 350 sheet pixels above its centre.
RimHits == { At(550, 350) }

\* Overlay timelines running at once.
MaxOverlayTimelines == 3

startScaleX100(vp) ==
    IF vp.w <= MobileBreakpoint THEN DetailStartScaleMobileX100 ELSE DetailStartScaleDesktopX100

IsOverlayTween(t) == t.kind \in {"detailShow", "detailHide"}

\* The scale of the overlay's container, in hundredths: that of the last
\* overlay timeline still running, 1 when none is.
containerScaleX100 ==
    LET tws == SelectSeq(frTweens, IsOverlayTween)
        s0 == startScaleX100(viewport)
    IN  IF tws = << >> THEN 100
        ELSE LET t == Last(tws)
             IN  IF t.kind = "detailShow"
                 THEN s0 + ((100 - s0) * t.el) \div t.dur
                 ELSE 100 - ((100 - s0) * t.el) \div t.dur

\* The screen point showing sheet pixel uv lies under the scaled container.
CoveredByOverlay(uv) ==
    /\ 100 * Abs((2 * uv.x - sheetWidth) - camPos.x) <= containerScaleX100 * HalfPx(cam.right)
    /\ 100 * Abs((sheetHeight - 2 * uv.y) - camPos.y) <= containerScaleX100 * HalfPx(cam.top)

\* Hammer's tap on a point of the canvas the interactive overlay does not
\* cover: handleTap as for any tap.  Followed while the overlay remembers the
\* frustum of a settled focus, and up to MaxOverlayTimelines timelines.
TapPastOverlay(uv) ==
    /\ init.wired /\ dv.pointerEvents
    /\ dv.originalSettings = AnimationCalculateZoomFrustum(viewport)
    /\ ~env.pan /\ ~env.pinch /\ env.fingers <= 1
    /\ uv.hit /\ Visible(uv) /\ ~CoveredByOverlay(uv)
    /\ Len(SelectSeq(frTweens, IsOverlayTween)) < MaxOverlayTimelines
    /\ handleTap(getImageAtPointer(uv))
    /\ UNCHANGED << viewport, cam, camPos, originalFrustum, drag, touch,
                    pinch, meshes, init, main, env >>

OverlayAnimating == \E i \in 1 .. Len(frTweens) : IsOverlayTween(frTweens[i])

OverlayNext ==
    \/ InitNext
    \/ ~init.wired /\ Resize(SmallViewport)
    \/ Tick
    \/ \E i \in 1 .. Len(timers) : TimerFire(i)
    \/ \E uv \in PointerHits : ~OverlayAnimating /\ Tap(uv)
    \/ \E uv \in RimHits : TapPastOverlay(uv)
    \/ DetailHide

\* The page used with taps alone in a window that can be shrunk to
\* SmallViewport while the sheet loads.  While an overlay timeline runs the
\* taps followed are those past the scaled overlay.
SpecOverlay == Init /\ [][OverlayNext]_vars

\* The step calls DetailView.show.
ShowInvoked ==
    /\ Len(frTweens') = Len(frTweens) + 1
    /\ Last(frTweens').kind = "detailShow"

\* The timeline of a hide ends in this gsap tick, no later overlay timeline
\* running.
HideCompletes ==
    /\ Tick
    /\ frTweens # << >>
    /\ Last(frTweens).kind = "detailHide"
    /\ Last(frTweens).el + 1 >= Last(frTweens).dur

\* C39: opening the detail overlay and closing it brings the camera frustum
\* back to the value it had before the overlay was opened and leaves state and
\* currentImage alone, however it is closed and also when show or hide is
\* called again while an overlay animation is running: show remembers the
\* frustum the camera had before the overlay was first opened (the window not
\* resized since), hide tweens the camera to that frustum, and the camera has
\* it when the hide has ended.
C39_OpenCloseRestoresFrustum ==
    [][ /\ ShowInvoked =>
              /\ UNCHANGED << state, currentImage >>
              /\ ~OverlayAnimating => dv'.originalSettings = cam
              /\ ( OverlayAnimating /\ dv.pointerEvents ) =>
                    dv'.originalSettings = dv.originalSettings
        /\ DetailHide =>
              /\ UNCHANGED << state, currentImage >>
              /\ Last(frTweens').to = dv.originalSettings
        /\ HideCompletes => cam' = Last(frTweens).to
      ]_vars

\* ------------------------------------------------------------ hit testing
\* The sheet pixels the pointer is put on: for every column and every row of
\* the grid the pixel before the image, its first pixel, its middle, its last
\* edge and the pixel after it, and the pixels at and beyond the sheet's edges.
EdgeOffsets(extent) == { -1, 0, extent \div 2, extent, extent + 1 }
SampleXs ==
    { firstImageX + col * (imageWidth + horizontalMargin) + o :
          col \in 0 .. columns - 1, o \in EdgeOffsets(imageWidth) }
        \cup { -1, 0, sheetWidth, sheetWidth + 1 }
SampleYs ==
    { firstImageY + row * (imageHeight + verticalMargin) + o :
          row \in 0 .. rows - 1, o \in EdgeOffsets(imageHeight) }
        \cup { -1, 0, sheetHeight, sheetHeight + 1 }
SamplePixels == { At(x, y) : x \in SampleXs, y \in SampleYs }

\* The sheet pixel at a position of the sheet plane (half sheet pixels, the
\* origin at the sheet's centre, y up), and back.
PixelAt(pos) == At((pos.x + sheetWidth) \div 2, (sheetHeight - pos.y) \div 2)
PositionOf(uv) == [x |-> 2 * uv.x - sheetWidth, y |-> sheetHeight - 2 * uv.y]

\* The pixel lies in the image rectangle GridLayout gives the cell.
InImage(cell, uv) ==
    LET pixelX == firstImageX + (cell.col * (imageWidth + horizontalMargin))
        pixelY == firstImageY + (cell.row * (imageHeight + verticalMargin))
    IN  /\ uv.hit
        /\ pixelX <= uv.x /\ uv.x <= pixelX + imageWidth
        /\ pixelY <= uv.y /\ uv.y <= pixelY + imageHeight

\* Hit testing on its own, asked once about the constructed controller: camPos
\* is the position of the pixel under the pointer, currentImage the cell
\* getImageAtPointer answers.
HitTest(uv) ==
    /\ camPos = [x |-> 0, y |-> 0]
    /\ camPos' = PositionOf(uv)
    /\ currentImage' = getImageAtPointer(uv)
    /\ UNCHANGED << viewport, cam, originalFrustum, state, drag, touch, pinch, posTweens,
                    frTweens, timers, bright, meshes, init, dv, main, env >>

HitTestNext == \E uv \in SamplePixels : HitTest(uv)

SpecHitTest == Init /\ [][HitTestNext]_vars

\* C40: hit testing maps a sheet pixel to its cell: isOverImage is true exactly
\* when the pixel lies in the image rectangle of a cell of the grid,
\* getImageAtPointer then answers that cell, a pixel in a margin or off the
\* grid (or a ray that misses the sheet) gives no cell, and the centre
\* getImagePosition gives a cell hit-tests to that cell.
C40_HitTestingFindsTheCell ==
    /\ \A cell \in Cells :
          getImageAtPointer(PixelAt(getImagePosition(cell.row, cell.col))) = cell
    /\ ~isOverImage(Miss) /\ getImageAtPointer(Miss) = NoCell
    /\ camPos # [x |-> 0, y |-> 0] =>
          LET uv == PixelAt(camPos)
          IN  /\ isOverImage(uv) <=> \E cell \in Cells : InImage(cell, uv)
              /\ \A cell \in Cells : InImage(cell, uv) => currentImage = cell
              /\ ( ~\E cell \in Cells : InImage(cell, uv) ) => currentImage = NoCell

\* The pointer is on the last edge of the image of cell (2,3), and that cell
\* is the answer.
C40_Witness ==
    /\ camPos = PositionOf(At(firstImageX + 3 * (imageWidth + horizontalMargin) + imageWidth,
                              firstImageY + 2 * (imageHeight + verticalMargin) + imageHeight))
    /\ currentImage = [row |-> 2, col |-> 3]

====
